------------------------------ MODULE PanelViews -------------------------------
(***************************************************************************)
(* What the panel of src/App.tsx shows.  Every list and every detail is    *)
(* asked for when it is needed, and whatever answer arrives last is what   *)
(* is shown: no request is cancelled, and a handler that goes on after an  *)
(* await asks with the session and the selection it began with.            *)
(*                                                                         *)
(* The views share nothing but the session, so one of them is watched.     *)
(***************************************************************************)
EXTENDS Naturals, FiniteSets

CONSTANTS
    Tenants,       \* accounts the browser may be logged in to
    Selectable,       \* what may be selected: an account, and one of its things
    Views,         \* the views that may be watched
    Nowhere,       \* no session, and no selection
    MaxLoads,      \* bound: requests unanswered at a time
    MaxUpdates,    \* bound: writes of this panel
    MaxEntries     \* bound: log-ins and impersonations

VARIABLES
    watched,       \* the view
    login,       \* the account logged in
    choice,        \* what the view is of: an account, and one of its things
    opened,          \* whether its tab is displayed
    data,          \* version of the data on the server, by this panel's writes
    due,           \* history: the version the view has been told of
    shown,         \* what is displayed
    loads,         \* requests to read, unanswered
    writer,        \* a handler that awaits its write
    excuse,        \* history: why what is due may not be shown
    entries        \* bound

viewVars == <<watched, login, choice, opened, data, due, shown, loads, writer,
              excuse, entries>>

\* Lists of the account: those that are put in the state as they come (leads,
\* agents, campaigns, team, credentials, messages, schedules, conversations,
\* clients and the reseller's overview), and the tickets.
AccountViews == {"lists", "tickets"}
\* Of an instance, of a group, of a conversation; of an integration or a partner.
ChosenViews == {"hooks", "groups", "details", "chat", "config", "tester", "partner"}
\* A component of their own: its state is lost when it is closed.
Mounted == {"admin", "partner", "config", "tester"}
\* Asked for only while their tab is displayed.
Tabbed == Mounted \cup {"hooks", "groups", "details"}
AllViews == AccountViews \cup ChosenViews \cup Mounted

\* Only a list replaces a list; and a failure empties the view.
Checked == {"tickets", "hooks", "groups", "admin", "partner"}
Emptied == {"config", "tester"}

Things == Selectable \cup {Nowhere}
NoHandler == [by |-> Nowhere, item |-> Nowhere, then |-> "rest"]
Nothing == [item |-> Nowhere, version |-> 0]

ASSUME ViewsAssumption ==
    /\ Views \subseteq AllViews
    /\ Selectable \subseteq Tenants \X {1, 2}
    /\ Tenants \X {1} \subseteq Selectable
    /\ Nowhere \notin Tenants \cup Selectable
    /\ {MaxLoads, MaxUpdates, MaxEntries} \subseteq Nat

ViewsTypeOK ==
    /\ watched \in Views /\ opened \in BOOLEAN
    /\ login \in Tenants \cup {Nowhere}
    /\ choice \in Things
    /\ data \in 0..MaxUpdates /\ due \in 0..MaxUpdates
    /\ shown \in [item : Things, version : 0..MaxUpdates]
    /\ loads \subseteq [by : Tenants, item : Things, from : 0..MaxUpdates, newest : BOOLEAN]
    /\ writer \in [by : Tenants \cup {Nowhere}, item : Things,
                    then : {"rest", "load", "loadIfAnswered", "loadIfDone", "merge", "show",
                            "forgotten"}]
    /\ excuse \in {"none", "failed", "overtaken"}
    /\ entries \in 0..MaxEntries

ViewsInit ==
    /\ watched \in Views
    /\ login = Nowhere /\ choice = Nowhere /\ opened = FALSE
    /\ data = 0 /\ due = 0
    /\ shown = Nothing /\ loads = {} /\ writer = NoHandler
    /\ excuse = "none" /\ entries = 0

-----------------------------------------------------------------------------
(* Asking.                                                                 *)

Here == login # Nowhere
Displayed == watched \in Tabbed => opened

Owner(item) == item[1]
\* The server has the thing, and it is of the account that asks.
Served(l) == l.item # Nowhere /\ Owner(l.item) = l.by

\* A request is of the session and the selection it was asked under, and newest
\* until something happens that calls for another.
Load(by, item) == [by |-> by, item |-> item, from |-> data, newest |-> TRUE]
Aged(l) == [l EXCEPT !.newest = FALSE]
IsDue(l) == l.newest /\ l.item = choice /\ Served(l)

\* Mutant: it is not asked for while an answer is under way.
RefreshUnlessLoading(by, item) ==
    /\ login' = by /\ choice' = item /\ due' = data
    /\ loads' = IF loads = {} THEN {Load(by, item)} ELSE loads
    /\ excuse' = "none"

\* What the view shows is out of date: it is asked for again.
Refresh(by, item) ==
    /\ login' = by /\ choice' = item /\ due' = data
    /\ loads' = {Aged(l) : l \in loads} \cup {Load(by, item)}
    /\ excuse' = "none"

Room == Cardinality(loads) < MaxLoads

\* What a component of its own leaves behind: its handler's write.
Unmount ==
    /\ opened' = FALSE /\ choice' = Nowhere /\ shown' = Nothing /\ loads' = {}
    /\ writer' = IF writer = NoHandler THEN writer ELSE [writer EXCEPT !.then = "forgotten"]

\* The effect on [auth] asks for every list of the account.
LoginLoads == AccountViews
\* The effects on the selection run too, for what was selected before.
SelectionLoads == {"hooks", "groups", "details"}

\* Log-in, and impersonation: the lists of the last account stay in the state.
Enter(a) ==
    /\ entries < MaxEntries /\ Room
    /\ entries' = entries + 1
    /\ login # a
    /\ CASE watched \in LoginLoads -> Refresh(a, <<a, 1>>) /\ UNCHANGED <<opened, shown, writer>>
         [] watched \in SelectionLoads /\ opened /\ choice # Nowhere ->
              Refresh(a, choice) /\ UNCHANGED <<opened, shown, writer>>
         [] watched \in Mounted -> login' = a /\ Unmount /\ UNCHANGED <<due, excuse>>
         [] OTHER ->
              login' = a /\ UNCHANGED <<choice, opened, due, shown, loads, writer, excuse>>
    /\ UNCHANGED <<watched, data>>

HandleLogin(a) == login = Nowhere /\ Enter(a)
HandleImpersonate(a) == Here /\ Enter(a)

\* The panel gives way to the log-in form; App keeps its state.
LoggedOut(unanswered) ==
    /\ login' = Nowhere
    /\ IF watched \in Mounted THEN Unmount
       ELSE loads' = unanswered /\ UNCHANGED <<opened, shown, choice, writer>>
HandleLogout ==
    /\ Here /\ LoggedOut(loads)
    /\ UNCHANGED <<watched, data, due, excuse, entries>>

\* Another instance, group, conversation, integration or partner: by a click, or
\* by the first list that arrives when there is none of this account.
Choose(n) ==
    /\ Here /\ Displayed /\ Room
    /\ watched \in ChosenViews \ {"groups", "tester"}
    /\ choice # <<login, n>> /\ <<login, n>> \in Selectable
    /\ Refresh(login, <<login, n>>)
    /\ UNCHANGED <<watched, opened, data, shown, writer, entries>>

\* A tab is opened, or a component mounted.
Open(n) ==
    /\ Here /\ watched \in Tabbed /\ ~opened /\ Room
    /\ opened' = TRUE
    /\ watched = "admin" => n = 1
    /\ <<login, n>> \in Selectable
    /\ Refresh(login, <<login, n>>)
    /\ UNCHANGED <<watched, data, shown, writer, entries>>
Close ==
    /\ Here /\ opened
    /\ IF watched \in Mounted THEN Unmount
       ELSE opened' = FALSE /\ UNCHANGED <<shown, loads, choice, writer>>
    /\ UNCHANGED <<watched, login, data, due, excuse, entries>>

\* The console asks every seven seconds, the tester's log every five, and a
\* button of the view asks at any time.
AskAgain ==
    /\ Here /\ Displayed /\ Room /\ choice # Nowhere
    /\ loads' = loads \cup {Load(login, choice)}
    /\ UNCHANGED <<watched, login, choice, opened, data, due, shown, writer, excuse, entries>>

-----------------------------------------------------------------------------
(* Answers.                                                                *)

\* What apiFetch returns goes to the state without a look at what is selected.
Puts(l, what) ==
    /\ shown' = what
    /\ excuse' = IF ~IsDue(l) THEN "overtaken" ELSE IF what = Nothing THEN "failed" ELSE "none"
Misses(l) ==
    /\ excuse' = IF IsDue(l) THEN "failed" ELSE excuse
    /\ UNCHANGED shown

ReadAnswered(l) ==
    /\ l \in loads /\ loads' = loads \ {l}
    /\ Served(l)
    /\ \E v \in l.from..data : Puts(l, [item |-> l.item, version |-> v])
    /\ UNCHANGED <<watched, login, choice, opened, data, due, writer, entries>>

\* An error in JSON: quota, rate limit, not found.  Unless the view looks whether
\* it is a list, the error takes the list's place.
ReadRefused(l) ==
    /\ l \in loads /\ loads' = loads \ {l}
    /\ IF watched \in Checked THEN Misses(l) ELSE Puts(l, Nothing)
    /\ UNCHANGED <<watched, login, choice, opened, data, due, writer, entries>>

\* No answer, or not JSON: apiFetch returns null.
ReadLost(l) ==
    /\ l \in loads /\ loads' = loads \ {l}
    /\ IF watched \in Emptied THEN Puts(l, Nothing) ELSE Misses(l)
    /\ UNCHANGED <<watched, login, choice, opened, data, due, writer, entries>>

\* 401 logs out whoever is logged in by now.
ReadDenied(l) ==
    /\ l \in loads
    /\ Here /\ LoggedOut(loads \ {l})
    /\ excuse' = IF IsDue(l) THEN "failed" ELSE excuse
    /\ UNCHANGED <<watched, data, due, entries>>

-----------------------------------------------------------------------------
(* Handlers that write, and what they ask for when the write has ended.    *)

Writes(views, then) ==
    /\ watched \in views /\ Here /\ Displayed /\ writer = NoHandler
    /\ choice # Nowhere
    /\ writer' = [by |-> login, item |-> choice, then |-> then]
    /\ UNCHANGED <<watched, login, choice, opened, data, due, shown, loads, excuse, entries>>

\* They name the instance of the row that was clicked.
WritesRow(views, then) ==
    /\ watched \in views /\ Here /\ Displayed /\ writer = NoHandler
    /\ shown.item # Nowhere
    /\ writer' = [by |-> login, item |-> shown.item, then |-> then]
    /\ UNCHANGED <<watched, login, choice, opened, data, due, shown, loads, excuse, entries>>

SyncGroups       == Writes({"groups"}, "show")
CreateGroup      == Writes({"groups"}, "load")
GroupAction      == Writes({"groups", "details"}, "loadIfAnswered")
JoinGroup        == Writes({"groups"}, "load")
SaveGroupRule    == Writes({"details"}, "load")
ToggleRule       == Writes({"details"}, "load")
DeleteRule       == Writes({"details"}, "load")
CreateWebhook    == Writes({"hooks"}, "load")
ToggleWebhook    == WritesRow({"hooks"}, "load")
DeleteWebhook    == WritesRow({"hooks"}, "load")
TestWebhook      == WritesRow({"hooks"}, "load")
RetryWebhookLog  == Writes({"hooks"}, "load")
SendSupportChat  == Writes({"tickets"}, "loadIfDone")
SaveLeads        == Writes({"lists"}, "load")
CreateAgent      == Writes({"lists"}, "load")
CreateClient     == Writes({"lists"}, "loadIfDone")
DeleteConversationRow == Writes({"lists"}, "load")
UpdateConversation == Writes({"lists"}, "merge")
DeleteChatMessage  == Writes({"chat"}, "load")
CreateCampaign   == Writes({"lists"}, "load")
DeleteCampaign   == Writes({"lists"}, "load")
ChangeTeam       == Writes({"lists"}, "load")
ChangeCredential == Writes({"lists"}, "load")
ChangeSchedule   == Writes({"lists"}, "load")
UpdateKanban     == Writes({"lists"}, "load")
DeleteAgent      == Writes({"lists"}, "load")
ChangeAccounts   == Writes({"admin"}, "load")
ChangePartners   == Writes({"admin", "partner"}, "load")
ChangeGrant      == Writes({"admin", "partner"}, "load")
SaveIntegration  == Writes({"config"}, "load")
ToggleEnabled    == Writes({"config"}, "load")

PanelWrites ==
    \/ SyncGroups \/ CreateGroup \/ GroupAction \/ JoinGroup
    \/ SaveGroupRule \/ ToggleRule \/ DeleteRule
    \/ CreateWebhook \/ ToggleWebhook \/ DeleteWebhook \/ TestWebhook \/ RetryWebhookLog
    \/ SendSupportChat \/ SaveLeads \/ CreateAgent \/ CreateClient
    \/ DeleteConversationRow \/ UpdateConversation \/ DeleteChatMessage
    \/ CreateCampaign \/ DeleteCampaign \/ ChangeTeam \/ ChangeCredential
    \/ ChangeSchedule \/ UpdateKanban \/ DeleteAgent
    \/ ChangeAccounts \/ ChangePartners \/ ChangeGrant
    \/ SaveIntegration \/ ToggleEnabled

\* A handler goes on with its own session and selection, whatever they are by
\* now: it asks again, or puts the answer in the view.
Continues(asks, puts, changed) ==
    /\ Room
    /\ data' = IF changed THEN data + 1 ELSE data
    /\ writer' = NoHandler
    /\ LET mine == writer.by = login /\ writer.item = choice
           told == mine /\ changed /\ (asks \/ puts)
           asked == [Load(writer.by, writer.item) EXCEPT !.from = data', !.newest = mine]
       IN  /\ due' = IF told THEN data' ELSE due
           /\ loads' = {IF told THEN Aged(l) ELSE l : l \in loads}
                       \cup IF asks THEN {asked} ELSE {}
           /\ shown' = IF puts THEN [item |-> writer.item, version |-> data'] ELSE shown
           /\ excuse' = IF puts /\ ~mine THEN "overtaken" ELSE IF told THEN "none" ELSE excuse
    /\ UNCHANGED <<watched, login, choice, opened, entries>>

Then(ways) == writer.then \in ways
\* A conversation's row is replaced where the list has it.
Merges == Then({"merge"}) /\ shown.item = writer.item

Done == data < MaxUpdates /\ writer.item # Nowhere /\ Owner(writer.item) = writer.by
WriteDone ==
    /\ ~Then({"rest"}) /\ Done
    /\ Continues(Then({"load", "loadIfAnswered", "loadIfDone"}), Then({"show"}) \/ Merges, TRUE)
WriteRefused ==
    /\ ~Then({"rest"})
    /\ Continues(Then({"load", "loadIfAnswered", "show"}), FALSE, FALSE)
\* The answer is lost, and the write may be done; apiFetch does not throw.
WriteLost ==
    /\ ~Then({"rest"})
    /\ \/ Continues(Then({"load", "show"}), FALSE, FALSE)
       \/ Done /\ Continues(Then({"load", "show"}), FALSE, TRUE)

-----------------------------------------------------------------------------
ViewsNext ==
    \/ \E a \in Tenants : HandleLogin(a) \/ HandleImpersonate(a)
    \/ HandleLogout
    \/ \E n \in {1, 2} : Choose(n) \/ Open(n)
    \/ Close \/ AskAgain
    \/ \E l \in loads : ReadAnswered(l) \/ ReadRefused(l) \/ ReadLost(l) \/ ReadDenied(l)
    \/ PanelWrites
    \/ WriteDone \/ WriteRefused \/ WriteLost

ViewsSpec == ViewsInit /\ [][ViewsNext]_viewVars

-----------------------------------------------------------------------------
\* Log-ins, selections and the panel's own writes each make what is displayed
\* out of date.  Whenever that is so, the panel has asked for the right thing and
\* has no answer yet, or that answer did not come, or an answer to an older
\* question came after it: nothing stays out of date because nobody asked.
ViewFollows ==
    (Here /\ Displayed /\ choice # Nowhere /\ Owner(choice) = login)
    => \/ shown.item = choice /\ shown.version >= due
       \/ \E l \in loads : IsDue(l)
       \/ excuse # "none"
=============================================================================
