------------------------------- MODULE MCImport -------------------------------
(***************************************************************************)
(* Scenarios for the import: a calendar of two events, and who acts on it. *)
(***************************************************************************)
EXTENDS ImportProperties, TLC

CONSTANTS e1, e2

TwoSteps == <<1, 2>>

At(start) == [NoEvent EXCEPT !.st = "live", !.start = start]

Calendar(x, y) == (e1 :> x @@ e2 :> y)

Absent == NoEvent

Bad == [NoEvent EXCEPT !.st = "live", !.bad = TRUE]

NoTasks == [t \in TaskId |-> NoRow]
NoLinks == [e \in Event |-> NoLink]

\* A task of the user's own, and the event it was exported to.
Own  == [NoTasks EXCEPT ![1] = [NoRow EXCEPT !.st = "live", !.start = MaxTime, !.event = e1]]
Echo == [At(MaxTime) EXCEPT !.tag = 1]
Known == [NoLinks EXCEPT ![e1] = [task |-> 1, origin |-> "exported"]]

Case(x, y, policy, acts, n, m, t) ==
  [events |-> Calendar(x, y), tasks |-> NoTasks, links |-> NoLinks, chat |-> TRUE,
   policy |-> policy, edits |-> n, budget |-> m, acts |-> acts, time |-> t]

Scenarios ==
  << Case(At(1), Absent, "soft_delete", {"text", "cancel", "force"}, 2, 1, 0),
     Case(At(2), At(0), "soft_delete", {"text", "cancel", "db", "crash", "publish"}, 1, 2, 1),
     Case(At(2), Absent, "soft_delete", {"text", "cancel", "complete", "remove"}, 2, 2, 2),
     Case(At(2), Absent, "mute", {"text", "cancel", "invalid", "rename"}, 2, 1, 2),
     Case(At(3), Bad, "soft_delete", {"text", "force"}, 1, 1, 3),
     Case([At(1) EXCEPT !.series = TRUE], Absent, "soft_delete",
          {"text", "disconnect", "delete", "db"}, 1, 2, 2),
     Case(At(1), Absent, "soft_delete", {"start", "cancel"}, 2, 0, 0),
     Case(At(2), At(3), "mute", {"delete", "crash"}, 0, 2, 2),
     Case(At(2), Absent, "keep", {"delete", "cancel"}, 1, 1, 3),
     Case(At(2), Absent, "soft_delete", {"text", "remove", "delete"}, 1, 2, 2),
     [Case(Echo, At(3), "soft_delete", {"delete", "text", "force"}, 1, 1, 1)
        EXCEPT !.tasks = Own, !.chat = FALSE],
     [Case(Echo, Absent, "soft_delete", {"delete", "start"}, 1, 1, 4)
        EXCEPT !.tasks = [Own EXCEPT ![1].chat = TRUE], !.links = Known] >>

\* As a function, which TLC evaluates once and not for every state.
Cases == [i \in DOMAIN Scenarios |-> Scenarios[i]]

\* A task without a chat, and a binding that has one.
ChatCases ==
  << [Case(Echo, Absent, "soft_delete", {"text", "cancel"}, 2, 0, 0)
        EXCEPT !.tasks = Own, !.links = Known] >>
=============================================================================
