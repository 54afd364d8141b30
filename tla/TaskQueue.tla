----------------------------- MODULE TaskQueue -----------------------------
(***************************************************************************)
(* The task queue of the core, src/libretro/retro/task_queue.cpp over      *)
(* libretro-common's queue without threads.  Tasks run in the order they   *)
(* were pushed, once per check; a finished task leaves the queue and its   *)
(* cleanup runs after all the handlers.  A cancelled task is finished by   *)
(* the next check without its handler.                                     *)
(***************************************************************************)
EXTENDS Integers, Sequences

(* path is what the task's functions captured when it was made.            *)
NewTask(ident, title, path) ==
  [ident |-> ident, title |-> title, path |-> path, cancelled |-> FALSE, finished |-> FALSE]

Push(queue, task) == Append(queue, task)

(* retro::task::find with an identifier, then TaskHandle::Cancel.          *)
CancelFound(queue, ident) ==
  [i \in DOMAIN queue |->
     IF queue[i].ident = ident THEN [queue[i] EXCEPT !.cancelled = TRUE] ELSE queue[i]]

(* retro::task::find with a title, then TaskHandle::Finish.                *)
FinishFound(queue, title) ==
  [i \in DOMAIN queue |->
     IF queue[i].title = title THEN [queue[i] EXCEPT !.finished = TRUE] ELSE queue[i]]

(* retro::task::reset.                                                     *)
CancelAll(queue) == [i \in DOMAIN queue |-> [queue[i] EXCEPT !.cancelled = TRUE]]

(* retro::task::check: TaskHandlerWrapper calls the handler of each task   *)
(* that is neither finished nor cancelled, and these stay in the queue;    *)
(* then TaskCleanupWrapper cleans up the others.                           *)
Ended(task) == task.finished \/ task.cancelled

(* The tasks of a queue that have ended, or those that have not.           *)
Part(queue, ended) ==
  LET part[i \in 0..Len(queue)] ==
        IF i = 0 THEN <<>>
        ELSE IF Ended(queue[i]) <=> ended THEN Append(part[i - 1], queue[i])
        ELSE part[i - 1]
  IN part[Len(queue)]

Running(queue) == Part(queue, FALSE)

CleanedUp(queue) == Part(queue, TRUE)
=============================================================================
