------------------------------ MODULE PanelDialog ------------------------------
(***************************************************************************)
(* The panel's list of instances and the dialog that shows the QR code or  *)
(* the passkey of one of them, in src/App.tsx.  They are written by clicks *)
(* and by the answers to them, by the events of the socket, by a poll      *)
(* every two seconds, and by what those schedule for the next turn.  The   *)
(* QR code is made an image in between.                                    *)
(***************************************************************************)
EXTENDS Naturals, Sequences, FiniteSets

CONSTANTS
    Devices,       \* instances
    Created,       \* those that exist from the start
    Clicks,        \* handlers that await an answer
    MaxReports,    \* bound: changes of an instance at the server
    MaxClicks,     \* bound: handlers begun
    NoCode, Shut   \* no QR code; no instance

VARIABLES
    server,     \* server[i]: the status of instance i there, and its QR code
    feed,       \* events under way to the panel, in order
    list,       \* list[i]: what the panel has of instance i
    dialog,     \* the dialog
    image,      \* the code whose image is displayed
    painting,   \* the code that is being made an image
    polls,      \* answers under way to the dialog's polls
    later,      \* dialogs that are scheduled to open in the next turn
    click,      \* click[h]: what handler h awaits
    reports, clicks    \* bounds

dialogVars == <<server, feed, list, dialog, image, painting, polls, later, click,
                reports, clicks>>

Codes == Devices \X (1..MaxReports)
States == {"new", "gone", "connecting", "qr", "passkey", "confirmation", "open", "close"}
KnownInstance == [status : States, qr : Codes \cup {NoCode}]
Frame == [id : Devices \cup {Shut}, status : States, qr : Codes \cup {NoCode}]
Closed == [id |-> Shut, status |-> "gone", qr |-> NoCode]
Waiting == [pc |-> "rest", id |-> Shut, listed |-> FALSE, got |-> "gone", qr |-> NoCode]

ASSUME DialogAssumption == Created \subseteq Devices /\ Shut \notin Devices /\ NoCode \notin Codes
                           /\ {MaxReports, MaxClicks} \subseteq Nat

DialogTypeOK ==
    /\ server \in [Devices -> KnownInstance] /\ list \in [Devices -> KnownInstance]
    /\ dialog \in Frame
    /\ image \in Codes \cup {NoCode} /\ painting \in Codes \cup {NoCode}
    /\ polls \subseteq Frame /\ later \subseteq Frame
    /\ \A h \in Clicks : /\ click[h].pc \in {"rest", "connect", "create", "confirm"}
                         /\ click[h].id \in Devices \cup {Shut}
    /\ reports \in 0..MaxReports /\ clicks \in 0..MaxClicks

Absent(known) == known.status \in {"new", "gone"}
Unconnected == [status |-> "close", qr |-> NoCode]
DialogInit ==
    /\ server = [i \in Devices |-> IF i \in Created THEN Unconnected
                                   ELSE [Unconnected EXCEPT !.status = "new"]]
    /\ list = server
    /\ feed = <<>> /\ dialog = Closed
    /\ image = NoCode /\ painting = NoCode
    /\ polls = {} /\ later = {}
    /\ click = [h \in Clicks |-> Waiting]
    /\ reports = 0 /\ clicks = 0

-----------------------------------------------------------------------------
(* The server: it reports every change, and a lost connection loses what   *)
(* is under way.                                                           *)

ServerBecomes(i, status, qr) ==
    /\ reports < MaxReports /\ reports' = reports + 1
    /\ ~Absent(server[i])
    /\ server' = [server EXCEPT ![i] = [status |-> status, qr |-> qr]]
    /\ feed' = Append(feed, [id |-> i, status |-> status, qr |-> qr])
    /\ UNCHANGED <<list, dialog, image, painting, polls, later, click, clicks>>
ServerReports ==
    \E i \in Devices :
      \/ ServerBecomes(i, "qr", <<i, reports + 1>>)
      \/ \E s \in {"passkey", "confirmation", "open", "close"} : ServerBecomes(i, s, NoCode)
FeedLost ==
    /\ feed # <<>> /\ feed' = <<>>
    /\ UNCHANGED <<server, list, dialog, image, painting, polls, later, click,
                   reports, clicks>>

-----------------------------------------------------------------------------
(* What changes the dialog.  The effect on its code and status begins the  *)
(* image anew and drops the one in progress; the effect on its instance    *)
(* drops the answers to earlier polls.                                     *)

\* Mutant: an image in progress is not dropped, and may be the one to end last.
BecomesUncancelled(d, rest) ==
    /\ dialog' = d
    /\ IF d.qr = dialog.qr /\ (d.status = "qr") = (dialog.status = "qr")
       THEN UNCHANGED <<image, painting>>
       ELSE IF d.qr = NoCode \/ d.status # "qr" THEN image' = NoCode /\ painting' = NoCode
       ELSE painting' \in {d.qr} \cup ({painting} \ {NoCode}) /\ UNCHANGED image
    /\ polls' = IF d.id = dialog.id THEN rest ELSE {}

DialogBecomes(d, rest) ==
    /\ dialog' = d
    /\ IF d.qr = dialog.qr /\ (d.status = "qr") = (dialog.status = "qr")
       THEN UNCHANGED <<image, painting>>
       ELSE IF d.qr = NoCode \/ d.status # "qr" THEN image' = NoCode /\ painting' = NoCode
       ELSE painting' = d.qr /\ UNCHANGED image
    /\ polls' = IF d.id = dialog.id THEN rest ELSE {}
SetDialog(d) == DialogBecomes(d, polls)
Same == UNCHANGED <<dialog, image, painting, polls>>
Of(i, known) == [id |-> i, status |-> known.status, qr |-> known.qr]

Painted ==
    /\ painting # NoCode
    /\ image' \in {painting, NoCode} /\ painting' = NoCode
    /\ UNCHANGED <<server, feed, list, dialog, polls, later, click, reports, clicks>>

\* An event with a code or a passkey updates the dialog of its instance; if that
\* is not open, it will be, in place of whatever is.
Opens(i, known) ==
    IF dialog.id = i THEN SetDialog(Of(i, known))
                          /\ UNCHANGED later
    ELSE Same /\ later' = IF Absent(list[i]) THEN later
                          ELSE later \cup {Of(i, known)}

Hears ==
    /\ feed # <<>> /\ feed' = Tail(feed)
    /\ LET e == Head(feed)
           known == [status |-> e.status,
                     qr |-> IF e.status \in {"qr", "passkey", "open"} THEN e.qr ELSE list[e.id].qr]
       IN  /\ list' = IF Absent(list[e.id]) THEN list ELSE [list EXCEPT ![e.id] = known]
           /\ CASE e.status \in {"qr", "passkey"} -> Opens(e.id, known)
                [] e.status = "open" /\ dialog.id = e.id -> SetDialog(Closed) /\ UNCHANGED later
                [] e.status = "confirmation" /\ dialog.id = e.id ->
                     SetDialog([dialog EXCEPT !.status = "confirmation"]) /\ UNCHANGED later
                [] OTHER -> Same /\ UNCHANGED later
    /\ UNCHANGED <<server, click, reports, clicks>>

NextTurn ==
    \E d \in later :
      /\ later' = later \ {d} /\ SetDialog(d)
      /\ UNCHANGED <<server, feed, list, click, reports, clicks>>

\* The poll does not wait for its last answer, so that answers may cross.
PollAsks ==
    /\ dialog.id # Shut /\ ~Absent(server[dialog.id])
    /\ Cardinality(polls) < 2
    /\ polls' = polls \cup {Of(dialog.id, server[dialog.id])}
    /\ UNCHANGED <<server, feed, list, dialog, image, painting, later, click,
                   reports, clicks>>
PollAnswered ==
    \E a \in polls :
      /\ list' = IF Absent(list[a.id]) THEN list
                 ELSE [list EXCEPT ![a.id] = [status |-> a.status, qr |-> a.qr]]
      /\ DialogBecomes(IF a.status = "open" THEN Closed ELSE a, polls \ {a})
      /\ UNCHANGED <<server, feed, later, click, reports, clicks>>
PollFails ==
    \E a \in polls :
      /\ polls' = polls \ {a}
      /\ UNCHANGED <<server, feed, list, dialog, image, painting, later, click,
                     reports, clicks>>

\* fetchInstances, at log-in and at the end of every handler.  An empty answer
\* does not replace a list that is not.
ListLoaded ==
    /\ list' = [i \in Devices |-> IF Absent(server[i]) THEN [Unconnected EXCEPT !.status = "gone"]
                                  ELSE server[i]]
    /\ (\A i \in Devices : Absent(server[i])) => \A i \in Devices : Absent(list[i])
    /\ UNCHANGED <<server, feed, dialog, image, painting, polls, later, click,
                   reports, clicks>>

-----------------------------------------------------------------------------
(* Clicks.                                                                 *)

Awaits(h, pc, i) ==
    /\ click[h].pc = "rest" /\ clicks < MaxClicks /\ clicks' = clicks + 1
    /\ click' = [click EXCEPT ![h] = [Waiting EXCEPT !.pc = pc, !.id = i, !.listed = ~Absent(list[i])]]
ClickEnds(h) == click' = [click EXCEPT ![h] = Waiting]

ShowInstance(i) ==
    /\ ~Absent(list[i]) /\ dialog.id = Shut
    /\ SetDialog(Of(i, list[i]))
    /\ UNCHANGED <<server, feed, list, later, click, reports, clicks>>
CloseDialog ==
    /\ dialog.id # Shut /\ SetDialog(Closed)
    /\ UNCHANGED <<server, feed, list, later, click, reports, clicks>>

CodeAwaited == [status |-> "connecting", qr |-> NoCode]

\* From the list, and from the dialog for a new code.
ConnectInstance(h, i) ==
    /\ i \in {d \in Devices : ~Absent(list[d])} \cup ({dialog.id} \ {Shut})
    /\ Awaits(h, "connect", i)
    /\ IF Absent(list[i]) THEN Same /\ UNCHANGED list
       ELSE SetDialog(Of(i, CodeAwaited)) /\ list' = [list EXCEPT ![i] = CodeAwaited]
    /\ UNCHANGED <<server, feed, later, reports>>
CreateInstance(h, i) ==
    /\ server[i].status = "new"
    /\ Awaits(h, "create", i)
    /\ server' = [server EXCEPT ![i] = CodeAwaited] /\ list' = [list EXCEPT ![i] = CodeAwaited]
    /\ SetDialog(Of(i, CodeAwaited))
    /\ UNCHANGED <<feed, later, reports>>

\* The server answers a connect with a code, a passkey, or nothing to show.
ConnectServed(h) ==
    /\ click[h].pc \in {"connect", "create"} /\ click[h].got = "gone"
    /\ LET s == server[click[h].id]
       IN  click' = IF s.status \in {"qr", "passkey"}
                    THEN [click EXCEPT ![h].got = s.status, ![h].qr = s.qr]
                    ELSE [click EXCEPT ![h] = Waiting]
    /\ UNCHANGED <<server, feed, list, dialog, image, painting, polls, later,
                   reports, clicks>>
\* The dialog is opened again if it has been closed, or shows something else: by
\* connect, if the instance was in the list; and always after a creation.
ConnectAnswered(h) ==
    /\ click[h].got # "gone"
    /\ LET i == click[h].id
           known == [status |-> click[h].got, qr |-> click[h].qr]
       IN  /\ list' = IF Absent(list[i]) THEN list ELSE [list EXCEPT ![i] = known]
           /\ IF click[h].pc = "create" \/ click[h].listed \/ dialog.id = i
              THEN SetDialog(Of(i, known)) ELSE Same
    /\ ClickEnds(h)
    /\ UNCHANGED <<server, feed, later, reports, clicks>>

\* authorizePasskeyInstance goes on with the instance it began with, and treats
\* the dialog that is open at the end as that instance's.
AuthorizePasskey(h) ==
    /\ dialog.id # Shut /\ dialog.status = "passkey"
    /\ Awaits(h, "confirm", dialog.id)
    /\ UNCHANGED <<server, feed, list, dialog, image, painting, polls, later, reports>>
PasskeyAnswered(h) ==
    /\ click[h].pc = "confirm"
    /\ LET i == click[h].id
           said == IF server[i].status = "open" THEN {"open", "confirmation"} ELSE {"confirmation"}
       IN  \E s \in said :
             /\ list' = IF Absent(list[i]) THEN list ELSE [list EXCEPT ![i].status = s,
                              ![i].qr = IF s = "open" THEN NoCode ELSE @]
             /\ SetDialog(IF s = "open" \/ dialog.id = Shut THEN Closed
                         ELSE [dialog EXCEPT !.status = "confirmation"])
    /\ ClickEnds(h)
    /\ UNCHANGED <<server, feed, later, reports, clicks>>
\* The authenticator is cancelled or fails; a failing call is not noticed.
PasskeyCancelled(h) ==
    /\ click[h].pc = "confirm" /\ ClickEnds(h)
    /\ UNCHANGED <<server, feed, list, dialog, image, painting, polls, later,
                   reports, clicks>>

LogoutInstance(i) ==
    /\ clicks < MaxClicks /\ clicks' = clicks + 1
    /\ ~Absent(list[i]) /\ ~Absent(server[i])
    /\ server' = [server EXCEPT ![i] = Unconnected]
    /\ feed' = Append(feed, Of(i, Unconnected))
    /\ UNCHANGED <<list, dialog, image, painting, polls, later, click, reports>>
\* The dialog of an instance that is deleted stays open.
DeleteFromList(i) ==
    /\ clicks < MaxClicks /\ clicks' = clicks + 1
    /\ ~Absent(list[i])
    /\ list' = [list EXCEPT ![i] = [Unconnected EXCEPT !.status = "gone"]]
    /\ server' \in {server, [server EXCEPT ![i] = [Unconnected EXCEPT !.status = "gone"]]}
    /\ UNCHANGED <<feed, dialog, image, painting, polls, later, click, reports>>

DialogNext ==
    \/ ServerReports \/ FeedLost \/ Hears \/ NextTurn \/ Painted
    \/ PollAsks \/ PollAnswered \/ PollFails \/ ListLoaded \/ CloseDialog
    \/ \E i \in Devices :
         \/ ShowInstance(i) \/ LogoutInstance(i) \/ DeleteFromList(i)
         \/ \E h \in Clicks : ConnectInstance(h, i) \/ CreateInstance(h, i)
    \/ \E h \in Clicks :
         \/ ConnectServed(h) \/ ConnectAnswered(h)
         \/ AuthorizePasskey(h) \/ PasskeyAnswered(h) \/ PasskeyCancelled(h)

DialogSpec == DialogInit /\ [][DialogNext]_dialogVars

-----------------------------------------------------------------------------
\* Events, polls, late answers and clicks open, change and close the one dialog
\* of all instances, and images are made at their own pace.  The code the dialog
\* holds is one of the instance it names, and the image it displays is that
\* code's, at the latest when the image under way is made.
DialogTrue ==
    /\ (dialog.status = "qr" /\ image # NoCode) =>
          (image = dialog.qr \/ painting = dialog.qr)
    /\ dialog.qr # NoCode => dialog.qr[1] = dialog.id
=============================================================================
