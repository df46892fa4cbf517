--------------------------- MODULE ReloadProtocol ---------------------------
(***************************************************************************)
(* How the event loop, the SIGHUP handler and the thread that prepares a   *)
(* new probelist agree on a reload (reload_probelist_state in              *)
(* lib/trinarkular_prober.c), as the event loop sees it: the thread is a   *)
(* single step.  Prober is built on this view of a reload; module Reload   *)
(* has the steps of the handler, of the loop and of the thread, and        *)
(* implements it.                                                          *)
(***************************************************************************)

CONSTANTS
  Lists,   \* the probelists the file may hold
  NoList   \* NULL, where a probelist may stand

VARIABLE reload   \* reload_probelist_state, whether a thread is at work, NEXT_PL

ReloadStates == {"NONE", "SCHEDULED", "RUNNING", "DONE"}

ReloadType ==
  reload \in [status : ReloadStates, loading : BOOLEAN, next : Lists \cup {NoList}]

NoReload == [status |-> "NONE", loading |-> FALSE, next |-> NoList]

\* trinarkular_prober_reload_probelist: a signal counts only when no reload is
\* under way.  The handler may have seen that the thread had failed before the
\* loop wrote RUNNING over it.
Request ==
  /\ \/ reload.status = "NONE"
     \/ reload.status = "RUNNING" /\ ~reload.loading /\ reload.next = NoList
  /\ reload' = [reload EXCEPT !.status = "SCHEDULED"]

\* schedule_probelist_reload: the outcomes of creating the thread.  It may be
\* still at work when the handler goes on; it may have ended before the
\* handler wrote RUNNING over what the thread had left, or after; creating it
\* may have failed.
AfterScheduling ==
  IF reload.status # "SCHEDULED" THEN {reload}
  ELSE {[status |-> "RUNNING", loading |-> TRUE, next |-> NoList], NoReload}
       \cup [status : {"RUNNING"}, loading : {FALSE}, next : Lists \cup {NoList}]
       \cup [status : {"DONE"}, loading : {FALSE}, next : Lists]

\* The reload thread ends: with the next list; on an error; or because a
\* signal interrupted its sleep, which leaves the status as it was.
LoaderEnds ==
  /\ reload.loading
  /\ reload' \in {NoReload}
                 \cup [status : {"DONE", "RUNNING"}, loading : {FALSE}, next : Lists]

\* The loop takes the list: NEXT_PL becomes the active one.
Adopt ==
  /\ reload.status = "DONE"
  /\ reload' = NoReload

ReloadInit == reload = NoReload

ReloadNext ==
  \/ Request
  \/ reload.status = "SCHEDULED" /\ reload' \in AfterScheduling
  \/ LoaderEnds
  \/ Adopt

ReloadSpec == ReloadInit /\ [][ReloadNext]_reload

=============================================================================
