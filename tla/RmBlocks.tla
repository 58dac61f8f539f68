------------------------------ MODULE RmBlocks ------------------------------
(***************************************************************************)
(* Block removal (blocks/blockstore/util/remove.go) against the pin       *)
(* commands (core/commands/pin.go).  RmBlocks starts a goroutine that     *)
(* takes the blockstore's GC lock, asks the pinner which of the cids are  *)
(* pinned, and deletes the others one by one; every result goes over the  *)
(* unbuffered channel out to ProcRmOutput, which turns them into the      *)
(* command's error.  "pin add" pins under the PinLock, which the GC lock  *)
(* excludes (the GCBlockstore's RWMutex: GCLock its write side, PinLock   *)
(* its read side); "pin rm" takes no lock.  Pinning fetches the DAG, so   *)
(* a pinned block is stored.  Pins are abstracted to the set of pinned    *)
(* keys, and a message on out to whether it names a block and carries an *)
(* error.                                                                  *)
(***************************************************************************)
EXTENDS Naturals, Sequences

CONSTANTS
  Keys,         \* block keys
  Cids,         \* the cid lists RmBlocks is called with
  Force,        \* RmBlocksOpts.Force
  Quiet,        \* RmBlocksOpts.Quiet
  MaxFailures   \* bound on pinner and blockstore errors

VARIABLES
  blocks,      \* keys in the blockstore
  pinned,      \* keys the pinner reports pinned
  gc,          \* the GC lock is held
  rm,          \* the RmBlocks goroutine: st, the cids left, messages to send
  proc,        \* ProcRmOutput: "idle", "reading", "ok", "failed", "aborted"
  someFailed,  \* ProcRmOutput's someFailed
  left,        \* the requested keys still stored when the goroutine ended
  failures     \* errors so far

vars == <<blocks, pinned, gc, rm, proc, someFailed, left, failures>>

\* RemovedBlock{Hash, Error}: hash says Hash is set, err that Error is.
Msg(hash, err) == [hash |-> hash, err |-> err]
Aborted == Msg(FALSE, TRUE)

\* A pinner or blockstore call fails.
Fail == failures < MaxFailures /\ failures' = failures + 1

Init == /\ blocks \in SUBSET Keys
        /\ pinned \in SUBSET blocks
        /\ gc = FALSE
        /\ rm = [st |-> "idle", cids |-> <<>>, todo |-> <<>>, msgs |-> <<>>]
        /\ proc = "idle"
        /\ someFailed = FALSE
        /\ left = {}
        /\ failures = 0

(* The command calls RmBlocks, which starts the goroutine, and reads its *)
(* results with ProcRmOutput.                                             *)
RmBlocksCall(cids) ==
  /\ rm.st = "idle" /\ proc \notin {"reading"}
  /\ rm' = [st |-> "lock", cids |-> cids, todo |-> <<>>, msgs |-> <<>>]
  /\ proc' = "reading"
  /\ someFailed' = FALSE
  /\ UNCHANGED <<blocks, pinned, gc, left, failures>>

\* blocks.GCLock(): wait until no PinLock or GC lock is held.
GCLock ==
  /\ rm.st = "lock" /\ ~gc
  /\ gc' = TRUE
  /\ rm' = [rm EXCEPT !.st = "filter"]
  /\ UNCHANGED <<blocks, pinned, proc, someFailed, left, failures>>

(* FilterPinned: CheckIfPinned over all cids; a failure sends the abort  *)
(* message and returns nil; otherwise each pinned cid gets an error      *)
(* message and the unpinned ones are left to delete.                     *)
PinnedMsgs(cids) ==
  [i \in 1..Len(SelectSeq(cids, LAMBDA k : k \in pinned)) |-> Msg(TRUE, TRUE)]

\* Seeded fault: FilterPinned carries on after the pin check failed.
FilterPinnedNoReturn ==
  /\ rm.st = "filter"
  /\ \/ /\ rm' = [rm EXCEPT !.st = "delete", !.msgs = PinnedMsgs(rm.cids),
                            !.todo = SelectSeq(rm.cids, LAMBDA k : k \notin pinned)]
        /\ UNCHANGED failures
     \/ /\ Fail
        /\ rm' = [rm EXCEPT !.st = "delete", !.msgs = <<Aborted>> \o PinnedMsgs(rm.cids),
                            !.todo = SelectSeq(rm.cids, LAMBDA k : k \notin pinned)]
  /\ UNCHANGED <<blocks, pinned, gc, proc, someFailed, left>>

FilterPinned ==
  /\ rm.st = "filter"
  /\ \/ /\ rm' = [rm EXCEPT !.st = "delete", !.msgs = PinnedMsgs(rm.cids),
                            !.todo = SelectSeq(rm.cids, LAMBDA k : k \notin pinned)]
        /\ UNCHANGED failures
     \/ /\ Fail
        /\ rm' = [rm EXCEPT !.st = "delete", !.msgs = <<Aborted>>, !.todo = <<>>]
  /\ UNCHANGED <<blocks, pinned, gc, proc, someFailed, left>>

(* A send on the unbuffered out meets ProcRmOutput's receive: the abort *)
(* message ends it with "aborted", an error sets someFailed.             *)
Deliver ==
  /\ rm.msgs # <<>> /\ proc = "reading"
  /\ LET m == Head(rm.msgs)
     IN  /\ proc' = IF ~m.hash /\ m.err THEN "aborted" ELSE proc
         /\ someFailed' = (someFailed \/ (m.hash /\ m.err))
  /\ rm' = [rm EXCEPT !.msgs = Tail(@)]
  /\ UNCHANGED <<blocks, pinned, gc, left, failures>>

(* DeleteBlock of the next unpinned cid, once the last result is sent:  *)
(* a missing block is ErrNotFound, ignored under Force; any error is     *)
(* reported; a success is reported unless Quiet.                         *)
\* Seeded fault: Force ignores every error, not only ErrNotFound.
DeleteNextForceAll ==
  /\ rm.st = "delete" /\ rm.msgs = <<>> /\ rm.todo # <<>>
  /\ LET k == Head(rm.todo)
         Report(err) == IF err /\ Force THEN <<>>
                        ELSE IF err THEN <<Msg(TRUE, TRUE)>>
                        ELSE IF Quiet THEN <<>> ELSE <<Msg(TRUE, FALSE)>>
     IN  \/ /\ k \in blocks
            /\ blocks' = blocks \ {k}
            /\ rm' = [rm EXCEPT !.todo = Tail(@), !.msgs = Report(FALSE)]
            /\ UNCHANGED failures
         \/ /\ k \notin blocks
            /\ rm' = [rm EXCEPT !.todo = Tail(@), !.msgs = Report(TRUE)]
            /\ UNCHANGED <<blocks, failures>>
         \/ /\ k \in blocks /\ Fail
            /\ rm' = [rm EXCEPT !.todo = Tail(@), !.msgs = Report(TRUE)]
            /\ UNCHANGED blocks
  /\ UNCHANGED <<pinned, gc, proc, someFailed, left>>

DeleteNext ==
  /\ rm.st = "delete" /\ rm.msgs = <<>> /\ rm.todo # <<>>
  /\ LET k == Head(rm.todo)
         Report(err, notFound) == IF err /\ Force /\ notFound THEN <<>>
                                  ELSE IF err THEN <<Msg(TRUE, TRUE)>>
                                  ELSE IF Quiet THEN <<>> ELSE <<Msg(TRUE, FALSE)>>
     IN  \/ /\ k \in blocks
            /\ blocks' = blocks \ {k}
            /\ rm' = [rm EXCEPT !.todo = Tail(@), !.msgs = Report(FALSE, FALSE)]
            /\ UNCHANGED failures
         \/ /\ k \notin blocks
            /\ rm' = [rm EXCEPT !.todo = Tail(@), !.msgs = Report(TRUE, TRUE)]
            /\ UNCHANGED <<blocks, failures>>
         \/ /\ k \in blocks /\ Fail
            /\ rm' = [rm EXCEPT !.todo = Tail(@), !.msgs = Report(TRUE, FALSE)]
            /\ UNCHANGED blocks
  /\ UNCHANGED <<pinned, gc, proc, someFailed, left>>

(* The loop is over: the deferred Unlock runs, then close(out).         *)
Finish ==
  /\ rm.st = "delete" /\ rm.msgs = <<>> /\ rm.todo = <<>>
  /\ gc' = FALSE
  /\ left' = {rm.cids[i] : i \in 1..Len(rm.cids)} \cap blocks
  /\ rm' = [rm EXCEPT !.st = "idle"]
  /\ proc' = IF proc = "reading" THEN IF someFailed THEN "failed" ELSE "ok"
             ELSE proc
  /\ UNCHANGED <<blocks, pinned, someFailed, failures>>

\* Seeded fault: "pin add" without the PinLock.
PinAddNoLock(k) ==
  /\ blocks' = blocks \cup {k}
  /\ pinned' = pinned \cup {k}
  /\ UNCHANGED <<gc, rm, proc, someFailed, left, failures>>

\* "pin add": under the PinLock, fetch the DAG and pin it.
PinAdd(k) ==
  /\ ~gc
  /\ blocks' = blocks \cup {k}
  /\ pinned' = pinned \cup {k}
  /\ UNCHANGED <<gc, rm, proc, someFailed, left, failures>>

\* "pin rm": unpin, with no lock.
PinRm(k) ==
  /\ pinned' = pinned \ {k}
  /\ UNCHANGED <<blocks, gc, rm, proc, someFailed, left, failures>>

Next == \/ \E c \in Cids : RmBlocksCall(c)
        \/ GCLock \/ FilterPinned \/ Deliver \/ DeleteNext \/ Finish
        \/ \E k \in Keys : PinAdd(k) \/ PinRm(k)

(* The goroutine and ProcRmOutput are always scheduled; the users who   *)
(* pin and call the command are not.                                     *)
Fairness == WF_vars(GCLock) /\ WF_vars(FilterPinned) /\ WF_vars(Deliver)
            /\ WF_vars(DeleteNext) /\ WF_vars(Finish)

Spec == Init /\ [][Next]_vars /\ Fairness

-----------------------------------------------------------------------------
(* A pinned block is never removed: between FilterPinned's check and    *)
(* the DeleteBlock of a cid, no "pin add" can pin it, because the GC    *)
(* lock is held across both.                                             *)
NoPinnedBlockRemoved == pinned \subseteq blocks

(* ProcRmOutput returns nil only when every requested block is gone:    *)
(* an error the goroutine swallows (only ErrNotFound under Force) must   *)
(* be one that leaves nothing behind.                                    *)
SuccessMeansRemoved == proc = "ok" => left = {}

(* The GC lock is always released again: the goroutine never blocks for *)
(* good on a send to a ProcRmOutput that has stopped reading.            *)
GCLockReleased == gc ~> ~gc

====
