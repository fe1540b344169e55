-------------------------------- MODULE Notes --------------------------------
(***************************************************************************)
(* The two kinds of notes of a user, backlogs and targets.  Both have the  *)
(* same service; backlogs are also made in batches.                        *)
(***************************************************************************)
EXTENDS ApiCore, Messengers

\* The repositories.
NewNote(r)       == [NoRow EXCEPT !.user = A(r).user, !.chat = A(r).chat]
InsertBacklog(r) == Inserts(r, "backlogs", NewNote(r), FALSE, "touch")
InsertTarget(r)  == Inserts(r, "targets", NewNote(r), FALSE, "touch")

(* Slip: what is not given is reset. *)
UpdateNoteReset(r, t) ==
  Updates(r, t, [req[r].copy EXCEPT !.done = A(r).done], "touch")

\* The whole copy is written; a request can complete a note, never undo it.
UpdateNoteRow(r, t) ==
  Updates(r, t, [req[r].copy EXCEPT !.done = @ \/ A(r).done], "touch")

DeleteBacklogRow(r) == Deletes(r, "backlogs", "touch")
DeleteTargetRow(r)  == Deletes(r, "targets", "touch")
BacklogsListed(r)   == Filtered("backlogs", r)
TargetsListed(r)    == Filtered("targets", r)
-----------------------------------------------------------------------------
(* What BacklogService and TargetService have in common.                   *)

ChecksOwner(r, op, pc) ==
  \/ /\ At(r, op, "start")
     /\ Requires(r, A(r).user \in Live("users"), "unprocessable", "chat")
  \/ /\ At(r, op, "chat")
     /\ Requires(r, A(r).chat = NoId \/ HasChat(A(r).chat), "unprocessable", pc)

ReadsTitle(r, op, t) ==
  \/ At(r, op, "start") /\ Reads(r, t, "check")
  \/ At(r, op, "check") /\ Requires(r, ~ A(r).blank, "validation", "write")

CreateBacklog(r) ==
  \/ ChecksOwner(r, "CreateBacklog", "insert")
  \/ At(r, "CreateBacklog", "insert") /\ InsertBacklog(r)
  \/ A(r).op = "CreateBacklog" /\ Touch(r, A(r).user)

\* A line of a batch becomes a row; one that cannot be inserted is skipped.
BatchLine(r) ==
  /\ At(r, "CreateBacklogsBatch", "lines") /\ req[r].total > 0
  /\ \E i \in NextId("backlogs") :
       /\ db' = [db EXCEPT !["backlogs"][i] =
                   [NewNote(r) EXCEPT !.st = "live", !.by = r, !.mark = r]]
       /\ req' = [req EXCEPT ![r].total = @ - 1, ![r].made = @ \cup {i},
                             ![r].wrote = TRUE, ![r].stamp = Len(req)]
  /\ Aside

BatchLineFails(r) ==
  /\ At(r, "CreateBacklogsBatch", "lines") /\ req[r].total > 0
  /\ "db" \in Sc.faults /\ failed < MaxFault
  /\ failed' = failed + 1
  /\ req' = [req EXCEPT ![r].total = @ - 1, ![r].hit = "fault"]
  /\ UNCHANGED <<db, armed, told, scene>>

\* The request has key lines that are not empty.
CreateBacklogsBatch(r) ==
  \/ ChecksOwner(r, "CreateBacklogsBatch", "split")
  \/ /\ At(r, "CreateBacklogsBatch", "split")
     /\ req' = [req EXCEPT ![r].pc = "lines", ![r].total = A(r).key]
     /\ Quiet
  \/ BatchLine(r)
  \/ /\ At(r, "CreateBacklogsBatch", "lines") /\ req[r].total = 0
     /\ IF req[r].made = {} THEN Answer(r, "unprocessable") ELSE Go(r, "touch")
     /\ Quiet
  \/ A(r).op = "CreateBacklogsBatch" /\ Touch(r, A(r).user)

GetBacklogByID(r) == At(r, "GetBacklogByID", "start") /\ Shows(r, "backlogs")

GetAllBacklogs(r) ==
  \/ /\ At(r, "GetAllBacklogs", "start")
     /\ ListsByChat(r, ChatsOfMessengerUser(A(r).key, A(r).user))
  \/ At(r, "GetAllBacklogs", "count") /\ Counts(r, BacklogsListed(r))
  \/ At(r, "GetAllBacklogs", "page") /\ ShowsPage(r, BacklogsListed(r))

UpdateBacklog(r) ==
  \/ ReadsTitle(r, "UpdateBacklog", "backlogs")
  \/ At(r, "UpdateBacklog", "write") /\ UpdateNoteRow(r, "backlogs")
  \/ A(r).op = "UpdateBacklog" /\ Touch(r, req[r].copy.user)

DeleteBacklog(r) ==
  \/ At(r, "DeleteBacklog", "start") /\ Reads(r, "backlogs", "delete")
  \/ At(r, "DeleteBacklog", "delete") /\ DeleteBacklogRow(r)
  \/ A(r).op = "DeleteBacklog" /\ Touch(r, req[r].copy.user)
-----------------------------------------------------------------------------
CreateTarget(r) ==
  \/ ChecksOwner(r, "CreateTarget", "insert")
  \/ At(r, "CreateTarget", "insert") /\ InsertTarget(r)
  \/ A(r).op = "CreateTarget" /\ Touch(r, A(r).user)

GetTargetByID(r) == At(r, "GetTargetByID", "start") /\ Shows(r, "targets")

GetAllTargets(r) ==
  \/ /\ At(r, "GetAllTargets", "start")
     /\ ListsByChat(r, ChatsOfMessengerUser(A(r).key, A(r).user))
  \/ At(r, "GetAllTargets", "count") /\ Counts(r, TargetsListed(r))
  \/ At(r, "GetAllTargets", "page") /\ ShowsPage(r, TargetsListed(r))

UpdateTarget(r) ==
  \/ ReadsTitle(r, "UpdateTarget", "targets")
  \/ At(r, "UpdateTarget", "write") /\ UpdateNoteRow(r, "targets")
  \/ A(r).op = "UpdateTarget" /\ Touch(r, req[r].copy.user)

DeleteTarget(r) ==
  \/ At(r, "DeleteTarget", "start") /\ Reads(r, "targets", "delete")
  \/ At(r, "DeleteTarget", "delete") /\ DeleteTargetRow(r)
  \/ A(r).op = "DeleteTarget" /\ Touch(r, req[r].copy.user)

NoteStep(r) ==
  \/ CreateBacklog(r) \/ CreateBacklogsBatch(r) \/ GetBacklogByID(r)
  \/ GetAllBacklogs(r) \/ UpdateBacklog(r) \/ DeleteBacklog(r)
  \/ CreateTarget(r) \/ GetTargetByID(r) \/ GetAllTargets(r)
  \/ UpdateTarget(r) \/ DeleteTarget(r)
-----------------------------------------------------------------------------
(* The handlers.                                                           *)

CreateBacklogHandler(out)       == Status(201, {"validation", "unprocessable"}, out)
CreateBacklogsBatchHandler(out) == Status(201, {"validation", "unprocessable"}, out)
GetBacklogHandler(out)          == Status(200, {"notfound"}, out)
GetAllBacklogsHandler(out)      == Status(200, {}, out)
UpdateBacklogHandler(out)       == Status(200, {"validation", "notfound", "unprocessable"}, out)
DeleteBacklogHandler(out)       == Status(204, {"notfound"}, out)
CreateTargetHandler(out)        == Status(201, {"validation", "unprocessable"}, out)
GetTargetHandler(out)           == Status(200, {"notfound"}, out)
GetAllTargetsHandler(out)       == Status(200, {}, out)
UpdateTargetHandler(out)        == Status(200, {"validation", "notfound", "unprocessable"}, out)
DeleteTargetHandler(out)        == Status(204, {"notfound"}, out)
=============================================================================
