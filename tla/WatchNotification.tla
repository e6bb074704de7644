-------------------------- MODULE WatchNotification --------------------------
(***************************************************************************)
(* Watches: the writers of a KVStore, which change data_ under mu_ and     *)
(* then call NotifyWatchers under watchMu_, and the long polls of          *)
(* WatchHandler::Watch (src/api/WatchHandler.cpp), whose callbacks write   *)
(* to the stack frame of the waiting handler.                              *)
(*                                                                         *)
(* A change is its number in the order of the changes of data_.  A poll    *)
(* watches a set of keys: one key, or the keys with a prefix.              *)
(***************************************************************************)
EXTENDS Integers, Sequences, FiniteSets

CONSTANTS
  Key,
  Writer,      \* the apply thread, and the threads that run CompareAndSwap
  Poll,        \* the threads that run WatchHandler::Watch
  Watched,     \* Watched[p]: the keys that match the pattern of p
  Nothing,     \* "no notification to make", "watchMu_ is free"
  MaxChanges   \* bound: how many changes are made

ASSUME WatchAssumption ==
  Watched \in [Poll -> SUBSET Key] /\ MaxChanges \in Nat /\ Nothing \notin Writer \cup Poll

VARIABLES
  changes,  \* the key and the writer of every change of data_ so far
  task,     \* task[w]: the change w has to tell watchers, and those not called yet
  watchMu,  \* which thread holds watchMu_
  watches,  \* the polls whose callback is in watches_
  frame,    \* frame[p]: the handler p runs: its wait, and the locals of its callback
  since,    \* since[p]: how many changes there were when p was registered
  seen      \* seen[p]: the changes p's callback was called with, since then

vars == <<changes, task, watchMu, watches, frame, since, seen>>
pollVars == <<watches, frame, since, seen>>

NoFrame == [wait |-> "none", changed |-> 0]

Init ==
  /\ changes = <<>>
  /\ task = [w \in Writer |-> Nothing]
  /\ watchMu = Nothing
  /\ watches = {}
  /\ frame = [p \in Poll |-> NoFrame]
  /\ since = [p \in Poll |-> 0] /\ seen = [p \in Poll |-> {}]
-----------------------------------------------------------------------------
(***************************************************************************)
(* Writers                                                                 *)
(***************************************************************************)

\* Put, Delete of a key that is there, or a successful CAS, under mu_.
Change(w, k) ==
  /\ task[w] = Nothing
  /\ Len(changes) < MaxChanges
  /\ changes' = Append(changes, [key |-> k, by |-> w])
  /\ task' = [task EXCEPT ![w] = [change |-> Len(changes) + 1, left |-> Nothing]]
  /\ UNCHANGED <<watchMu, pollVars>>

\* NotifyWatchers takes watchMu_ and starts its loop.
Notify(w) ==
  /\ task[w] # Nothing /\ task[w].left = Nothing
  /\ watchMu = Nothing /\ watchMu' = w
  /\ task' = [task EXCEPT ![w].left = {p \in watches : changes[task[w].change].key \in Watched[p]}]
  /\ UNCHANGED <<changes, pollVars>>

\* Faulty: a later change does not replace the first.
CallbackFirst(w, p) ==
  /\ watchMu = w /\ p \in task[w].left
  /\ task' = [task EXCEPT ![w].left = @ \ {p}]
  /\ frame' = [frame EXCEPT ![p].changed = IF @ = 0 THEN task[w].change ELSE @]
  /\ seen' = [seen EXCEPT ![p] = @ \cup {task[w].change}]
  /\ UNCHANGED <<changes, watchMu, watches, since>>

\* The callback of p, called from the loop.
Callback(w, p) ==
  /\ watchMu = w /\ p \in task[w].left
  /\ task' = [task EXCEPT ![w].left = @ \ {p}]
  /\ frame' = [frame EXCEPT ![p].changed = task[w].change]
  /\ seen' = [seen EXCEPT ![p] = @ \cup {task[w].change}]
  /\ UNCHANGED <<changes, watchMu, watches, since>>

\* Faulty: the loop stops at the first match.
NotifiedFirst(w) ==
  /\ watchMu = w
  /\ watchMu' = Nothing
  /\ task' = [task EXCEPT ![w] = Nothing]
  /\ UNCHANGED <<changes, pollVars>>

\* The loop is done and watchMu_ released.
Notified(w) ==
  /\ watchMu = w /\ task[w].left = {}
  /\ watchMu' = Nothing
  /\ task' = [task EXCEPT ![w] = Nothing]
  /\ UNCHANGED <<changes, pollVars>>
-----------------------------------------------------------------------------
(***************************************************************************)
(* Long polls                                                              *)
(***************************************************************************)

\* Watch: the handler's callback goes into watches_.
Watch(p) ==
  /\ frame[p] = NoFrame
  /\ watchMu = Nothing
  /\ watches' = watches \cup {p}
  /\ frame' = [frame EXCEPT ![p].wait = "waiting"]
  /\ since' = [since EXCEPT ![p] = Len(changes)]
  /\ seen' = [seen EXCEPT ![p] = {}]
  /\ UNCHANGED <<changes, task, watchMu>>


\* wait_for returns: fired is true, or timeout_ms have passed without it.
WaitEnds(p) ==
  /\ frame[p].wait = "waiting"
  /\ frame' = [frame EXCEPT ![p].wait = IF frame[p].changed # 0 THEN "fired" ELSE "timeout"]
  /\ UNCHANGED <<changes, task, watchMu, watches, since, seen>>

\* Faulty: watchMu_ is not taken.
UnwatchUnlocked(p) ==
  /\ frame[p].wait \in {"fired", "timeout"}
  /\ watches' = watches \ {p}
  /\ frame' = [frame EXCEPT ![p] = NoFrame]
  /\ UNCHANGED <<changes, task, watchMu, since, seen>>

\* Unwatch, after which the handler answers and returns: its frame is gone.
Unwatch(p) ==
  /\ frame[p].wait \in {"fired", "timeout"}
  /\ watchMu = Nothing
  /\ watches' = watches \ {p}
  /\ frame' = [frame EXCEPT ![p] = NoFrame]
  /\ UNCHANGED <<changes, task, watchMu, since, seen>>

Next ==
  \/ \E w \in Writer :
       \/ Notify(w) \/ Notified(w)
       \/ \E k \in Key : Change(w, k)
       \/ \E p \in Poll : Callback(w, p)
  \/ \E p \in Poll : Watch(p) \/ WaitEnds(p) \/ Unwatch(p)

Spec == Init /\ [][Next]_vars

\* The threads run on, and one that waits for a mutex that is released again
\* and again gets it.  A client may or may not poll again.
LiveSpec ==
  /\ Spec
  /\ \A w \in Writer :
       /\ SF_vars(Notify(w)) /\ WF_vars(Notified(w))
       /\ \A p \in Poll : WF_vars(Callback(w, p))
  /\ \A p \in Poll : WF_vars(WaitEnds(p)) /\ SF_vars(Unwatch(p))
-----------------------------------------------------------------------------
(***************************************************************************)
(* Properties                                                              *)
(***************************************************************************)

\* The callbacks a notification still has to call belong to handlers that have
\* not returned: NotifyWatchers keeps watchMu_ over its calls and Unwatch waits
\* for it, so no callback writes to a frame that is gone.
CallbackHasItsFrame ==
  \A w \in Writer : watchMu = w =>
    \A p \in task[w].left : p \in watches /\ frame[p].wait # "none"

\* "callback fires on every change to key or prefix" (KVStore.hpp): a change
\* made while p was registered has reached p as soon as its writer is through,
\* however registrations, changes and notifications interleave.
EveryChangeIsSeen ==
  \A p \in watches : \A i \in since[p] + 1 .. Len(changes) :
    /\ changes[i].key \in Watched[p]
    /\ \A w \in Writer : task[w] # Nothing => task[w].change # i
    => i \in seen[p]

\* A poll never answers with a change after it was told of a later one of the
\* same writer, the apply thread for example: each writer notifies in the order
\* of its changes.  Between two writers the order may be the other one.
PollReportsNewest ==
  \A p \in watches : \A i \in seen[p] :
    changes[i].by = changes[frame[p].changed].by => i <= frame[p].changed

=============================================================================
