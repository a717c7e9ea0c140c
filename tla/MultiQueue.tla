----------------------------- MODULE MultiQueue -----------------------------
(***************************************************************************)
(* multi_queue of ib_transport_protocol: many queues in one memory.  The   *)
(* entries of all queues are rows of meta_table, linked through next; a    *)
(* row of ptr_table says where the queue of a key begins and ends.  Four   *)
(* processes work on it, each in its own pace: the list of free rows, the  *)
(* two tables, and process_requests, which serves one request at a time.   *)
(* A value is the number of its push.                                      *)
(***************************************************************************)
EXTENDS Integers, FiniteSets, Sequences, SequencesExt

CONSTANTS
    Keys,           \* queue pairs
    Size,           \* MULTI_QUEUE_SIZE, rows of meta_table
    MaxPushes,      \* bound: values pushed
    MaxPops         \* bound: pops and fronts asked for

VARIABLES
    pushQ, popQ,    \* multiQueue_push, multiQueue_pop_req
    answers,        \* all that was written to multiQueue_pop_rsp
    pushes, pops,   \* numbers of requests so far
    ptrTable,       \* ptr_table: [head, tail, valid]
    ptrLock,        \* mq_isLocked, mq_lockedKey, and mq_request when mq_wait
    metaTable,      \* meta_table: [value, valid, next, isTail]
    fresh,          \* freeListCounter
    mq,             \* the FIFOs between the four processes
    fsm             \* rt_state and the registers of process_requests

vars == <<pushQ, popQ, answers, pushes, pops, ptrTable, ptrLock, metaTable, fresh, mq, fsm>>

Rows == 0 .. Size - 1
Values == 1 .. MaxPushes
Operations == {"POP", "FRONT"}
Idle == [state |-> "STATE_MAIN"]
FifoDepth == 2
HasRoom(fifo) == Len(mq[fifo]) < FifoDepth

Init ==
    /\ pushQ = <<>> /\ popQ = <<>> /\ answers = <<>> /\ pushes = 0 /\ pops = 0
    /\ ptrTable = [k \in Keys |-> [head |-> 0, tail |-> 0, valid |-> FALSE]]
    /\ \E k \in Keys : ptrLock = [isLocked |-> FALSE, key |-> k, waiting |-> {}]
    /\ metaTable = [i \in Rows |-> [value |-> 0, valid |-> FALSE, next |-> 0, isTail |-> FALSE]]
    /\ fresh = 0
    /\ mq = [pointerReq |-> <<>>, pointerUpd |-> <<>>, pointerRsp |-> <<>>,
             metaReq |-> <<>>, metaRsp |-> <<>>, free |-> <<>>, release |-> <<>>]
    /\ fsm = Idle

-----------------------------------------------------------------------------
(* The callers                                                             *)

AskPush(k) ==
    /\ pushes < MaxPushes /\ Len(pushQ) < FifoDepth
    /\ pushQ' = Append(pushQ, [key |-> k, value |-> pushes + 1])
    /\ pushes' = pushes + 1
    /\ UNCHANGED <<popQ, answers, pops, ptrTable, ptrLock, metaTable, fresh, mq, fsm>>

AskPop(k, op) ==
    /\ pops < MaxPops /\ Len(popQ) < FifoDepth
    /\ popQ' = Append(popQ, [key |-> k, op |-> op])
    /\ pops' = pops + 1
    /\ UNCHANGED <<pushQ, answers, pushes, ptrTable, ptrLock, metaTable, fresh, mq, fsm>>

-----------------------------------------------------------------------------
(* mq_pointer_table: an update first, then a new request, then the one that*)
(* waits for the lock.                                                     *)

UpdatePointer ==
    /\ mq.pointerUpd # <<>>
    /\ LET u == Head(mq.pointerUpd) IN
         /\ ptrTable' = [ptrTable EXCEPT ![u.key] = u.entry]
         /\ ptrLock' = IF ptrLock.key = u.key THEN [ptrLock EXCEPT !.isLocked = FALSE] ELSE ptrLock
    /\ mq' = [mq EXCEPT !.pointerUpd = Tail(@)]

Answer(r, waiting) ==
    ptrLock' = IF r.lock THEN [isLocked |-> TRUE, key |-> r.key, waiting |-> waiting]
                         ELSE [ptrLock EXCEPT !.waiting = waiting]

RequestPointer ==
    /\ mq.pointerUpd = <<>> /\ mq.pointerReq # <<>> /\ ptrLock.waiting = {}
    /\ LET r == Head(mq.pointerReq) IN
         \/ /\ r.lock /\ ptrLock.isLocked
            /\ ptrLock' = [ptrLock EXCEPT !.waiting = {r}]
            /\ mq' = [mq EXCEPT !.pointerReq = Tail(@)]
         \/ /\ ~(r.lock /\ ptrLock.isLocked) /\ HasRoom("pointerRsp")
            /\ Answer(r, {})
            /\ mq' = [mq EXCEPT !.pointerReq = Tail(@), !.pointerRsp = Append(@, ptrTable[r.key])]
    /\ UNCHANGED ptrTable

RetryPointer ==
    /\ mq.pointerUpd = <<>> /\ ~ptrLock.isLocked /\ HasRoom("pointerRsp")
    /\ \E r \in ptrLock.waiting :
          /\ Answer(r, {})
          /\ mq' = [mq EXCEPT !.pointerRsp = Append(@, ptrTable[r.key])]
    /\ UNCHANGED ptrTable

PointerTable ==
    /\ UpdatePointer \/ RequestPointer \/ RetryPointer
    /\ UNCHANGED <<pushQ, popQ, answers, pushes, pops, metaTable, fresh, fsm>>

-----------------------------------------------------------------------------
(* mq_freelist_handler: rows given back first, then rows never used.       *)

FreeList ==
    /\ \/ /\ mq.release # <<>>
          /\ mq' = [mq EXCEPT !.release = Tail(@), !.free = Append(@, Head(mq.release))]
          /\ UNCHANGED fresh
       \/ /\ mq.release = <<>> /\ fresh < Size /\ Len(mq.free) < Size
          /\ mq' = [mq EXCEPT !.free = Append(@, fresh)]
          /\ fresh' = fresh + 1
    /\ UNCHANGED <<pushQ, popQ, answers, pushes, pops, ptrTable, ptrLock, metaTable, fsm>>

-----------------------------------------------------------------------------
(* mq_meta_table                                                           *)

WriteRow(i, entry) == [type |-> "write", idx |-> i, entry |-> entry]
AppendRow(i, next) == [type |-> "append", idx |-> i, next |-> next]
ReadRow(i) == [type |-> "read", idx |-> i]

(* The table after a request.                                              *)
Applied(table, r) ==
    CASE r.type = "write" -> [table EXCEPT ![r.idx] = r.entry]
      [] r.type = "append" -> [table EXCEPT ![r.idx].next = r.next, ![r.idx].isTail = FALSE]
      [] OTHER -> table

MetaTable ==
    /\ mq.metaReq # <<>>
    /\ LET r == Head(mq.metaReq) IN
         /\ r.type = "read" => HasRoom("metaRsp")
         /\ metaTable' = Applied(metaTable, r)
         /\ mq' = [mq EXCEPT !.metaReq = Tail(@), !.metaRsp = IF r.type = "read" THEN Append(@, metaTable[r.idx]) ELSE @]
    /\ UNCHANGED <<pushQ, popQ, answers, pushes, pops, ptrTable, ptrLock, fresh, fsm>>

-----------------------------------------------------------------------------
(* mq_process_requests                                                     *)

PointerReq(key, lock) == [key |-> key, lock |-> lock]
PointerUpd(key, entry) == [key |-> key, entry |-> entry]

(* A push is taken only together with a free row, and before any pop.      *)
MayPush == pushQ # <<>> /\ mq.free # <<>>

TakePush ==
    /\ fsm.state = "STATE_MAIN" /\ MayPush /\ HasRoom("pointerReq")
    /\ fsm' = [state |-> "STATE_PUSH", newMetaIdx |-> Head(mq.free), insert |-> Head(pushQ)]
    /\ mq' = [mq EXCEPT !.free = Tail(@), !.pointerReq = Append(@, PointerReq(Head(pushQ).key, TRUE))]
    /\ pushQ' = Tail(pushQ)
    /\ UNCHANGED <<popQ, answers>>

TakePop ==
    /\ fsm.state = "STATE_MAIN" /\ ~MayPush /\ popQ # <<>> /\ HasRoom("pointerReq")
    /\ fsm' = [state |-> "STATE_POP", popRequest |-> Head(popQ)]
    /\ mq' = [mq EXCEPT !.pointerReq = Append(@, PointerReq(Head(popQ).key, FALSE))]
    /\ popQ' = Tail(popQ)
    /\ UNCHANGED <<pushQ, answers>>

(* The new row, at the end of its queue.                                   *)
NewRow == [value |-> fsm.insert.value, valid |-> TRUE, next |-> 0, isTail |-> TRUE]

PushFirst ==
    /\ fsm.state = "STATE_PUSH" /\ mq.pointerRsp # <<>> /\ ~Head(mq.pointerRsp).valid
    /\ HasRoom("metaReq") /\ HasRoom("pointerUpd")
    /\ LET entry == [head |-> fsm.newMetaIdx, tail |-> fsm.newMetaIdx, valid |-> TRUE] IN
         mq' = [mq EXCEPT !.pointerRsp = Tail(@),
                          !.metaReq = Append(@, WriteRow(fsm.newMetaIdx, NewRow)),
                          !.pointerUpd = Append(@, PointerUpd(fsm.insert.key, entry))]
    /\ fsm' = Idle
    /\ UNCHANGED <<pushQ, popQ, answers>>

PushLink ==
    /\ fsm.state = "STATE_PUSH" /\ mq.pointerRsp # <<>> /\ Head(mq.pointerRsp).valid
    /\ HasRoom("metaReq")
    /\ LET ptr == Head(mq.pointerRsp) IN
         /\ mq' = [mq EXCEPT !.pointerRsp = Tail(@), !.metaReq = Append(@, AppendRow(ptr.tail, fsm.newMetaIdx))]
         /\ fsm' = [state |-> "STATE_PUSH_2", newMetaIdx |-> fsm.newMetaIdx, insert |-> fsm.insert,
                    ptrMeta |-> [ptr EXCEPT !.tail = fsm.newMetaIdx]]
    /\ UNCHANGED <<pushQ, popQ, answers>>

PushNext ==
    /\ fsm.state = "STATE_PUSH_2" /\ HasRoom("metaReq") /\ HasRoom("pointerUpd")
    /\ mq' = [mq EXCEPT !.metaReq = Append(@, WriteRow(fsm.newMetaIdx, NewRow)),
                        !.pointerUpd = Append(@, PointerUpd(fsm.insert.key, fsm.ptrMeta))]
    /\ fsm' = Idle
    /\ UNCHANGED <<pushQ, popQ, answers>>

(* A pop of an empty queue is dropped without an answer.                   *)
PopRead ==
    /\ fsm.state = "STATE_POP" /\ mq.pointerRsp # <<>>
    /\ LET ptr == Head(mq.pointerRsp) IN
         \/ /\ ptr.valid /\ HasRoom("metaReq")
            /\ mq' = [mq EXCEPT !.pointerRsp = Tail(@), !.metaReq = Append(@, ReadRow(ptr.head))]
            /\ fsm' = [state |-> "STATE_POP_2", popRequest |-> fsm.popRequest, ptrMeta |-> ptr]
         \/ /\ ~ptr.valid
            /\ mq' = [mq EXCEPT !.pointerRsp = Tail(@)]
            /\ fsm' = Idle
    /\ UNCHANGED <<pushQ, popQ, answers>>

(* What a pop leaves of its queue's pointers.                              *)
AfterPopStays(ptr, meta) == [ptr EXCEPT !.head = meta.next]
AfterPopEmpty(ptr, meta) == [ptr EXCEPT !.valid = FALSE, !.head = meta.next]
AfterPop(ptr, meta) == [ptr EXCEPT !.valid = ~meta.isTail, !.head = meta.next]

(* A row that was never written is not answered with.                      *)
PopAnswer ==
    /\ fsm.state = "STATE_POP_2" /\ mq.metaRsp # <<>>
    /\ LET meta == Head(mq.metaRsp)
           pop == meta.valid /\ fsm.popRequest.op = "POP"
           read == [mq EXCEPT !.metaRsp = Tail(@)]
       IN /\ pop => HasRoom("release") /\ HasRoom("pointerUpd")
          /\ answers' = IF meta.valid THEN Append(answers, meta.value) ELSE answers
          /\ mq' = IF pop
                   THEN [read EXCEPT !.release = Append(@, fsm.ptrMeta.head),
                                     !.pointerUpd = Append(@, PointerUpd(fsm.popRequest.key, AfterPop(fsm.ptrMeta, meta)))]
                   ELSE read
    /\ fsm' = Idle
    /\ UNCHANGED <<pushQ, popQ>>

ProcessRequests ==
    /\ TakePush \/ TakePop \/ PushFirst \/ PushLink \/ PushNext \/ PopRead \/ PopAnswer
    /\ UNCHANGED <<pushes, pops, ptrTable, ptrLock, metaTable, fresh>>

-----------------------------------------------------------------------------

Next ==
    \/ \E k \in Keys : AskPush(k) \/ (\E op \in Operations : AskPop(k, op))
    \/ PointerTable
    \/ FreeList
    \/ MetaTable
    \/ ProcessRequests

Spec == Init /\ [][Next]_vars

-----------------------------------------------------------------------------
(* The tables with all that is on its way to them.                         *)
Meta == FoldLeft(Applied, metaTable, mq.metaReq)

Pointers ==
    LET Update(table, u) == [table EXCEPT ![u.key] = u.entry]
    IN FoldLeft(Update, ptrTable, mq.pointerUpd)

(* The rows of a key's queue, from its head to its tail; no more than Size *)
(* of them, or the list would be a circle.                                 *)
RowsOf(k) ==
    LET walk[n \in 0 .. Size] ==
            IF n = 0 \/ ~Pointers[k].valid THEN <<>>
            ELSE IF n = 1 THEN <<Pointers[k].head>>
            ELSE LET rows == walk[n - 1]
                     last == rows[Len(rows)]
                 IN IF last = Pointers[k].tail THEN rows ELSE Append(rows, Meta[last].next)
    IN walk[Size]

QueueOf(k) == [n \in 1 .. Len(RowsOf(k)) |-> Meta[RowsOf(k)[n]].value]

(* multi_queue implements KeyedQueues: a push takes effect when its pointer*)
(* update is written, a pop when it is answered.                           *)
Abstract == INSTANCE KeyedQueues WITH queues <- [k \in Keys |-> QueueOf(k)]
ImplementsQueues == Abstract!Spec

(* Every row is in exactly one place: never used, free, on its way back,   *)
(* taken for the push under way, or in one queue, once.                    *)
RowsInUse ==
    LET InQueues == FoldLeft(LAMBDA rows, k : rows \o RowsOf(k), <<>>, SetToSeq(Keys))
        Taken == IF fsm.state \in {"STATE_PUSH", "STATE_PUSH_2"} THEN <<fsm.newMetaIdx>> ELSE <<>>
    IN mq.free \o mq.release \o Taken \o InQueues

EachRowIsInOnePlace == IsInjective(RowsInUse) /\ ToSet(RowsInUse) = 0 .. fresh - 1

=============================================================================
