------------------------------- MODULE Block1 -------------------------------
(***************************************************************************)
(* Reassembly of a request body that a server sends in blocks              *)
(* (src/external/wakaama/block1.c, called by lwm2m_handle_packet), against *)
(* a sender and a network that loses, repeats and reorders the messages of *)
(* one transfer. Those of an earlier transfer are gone when the next       *)
(* begins.                                                                 *)
(***************************************************************************)
EXTENDS Integers, Sequences, SequencesExt

CONSTANTS
  MAX_BLOCK1_SIZE,
  BlockSize,     \* bytes of a block
  Bodies,        \* the bodies a server sends: records of a name and a length
  Failing,       \* mallocs that may fail: subset of {"data", "append"}
  MaxMid         \* bound: messages of the server

ASSUME ConstantsAssumption ==
  /\ {MAX_BLOCK1_SIZE, BlockSize} \subseteq Nat \ {0}
  /\ Bodies # {} /\ \A b \in Bodies : b.length \in Nat \ {0}
  /\ Failing \subseteq {"data", "append"}
  /\ MaxMid \in Nat

VARIABLES
  stale,     \* the network: messages before the last one may still arrive
  data,      \* block1Data: whether it is allocated, and its members
  sender,    \* body, number of the block that is sent, message id, state
  net,       \* the messages of this transfer that the server has sent
  answers,   \* those that the client has sent
  handed,    \* history: the payload of the last call of handle_request
  run        \* "up" or "crashed"

vars == <<stale, data, sender, net, answers, handed, run>>

\* A body is cut into pieces, the last of which may be shorter. A buffer is a sequence of
\* pieces, and Absent for the null pointer.
Absent == <<>>
Count(b) == (b.length + BlockSize - 1) \div BlockSize
Length(b, n) == IF n = Count(b) - 1 THEN b.length - n * BlockSize ELSE BlockSize
Piece(b, n) == [body |-> b, num |-> n]
Whole(b) == [i \in 1 .. Count(b) |-> Piece(b, i - 1)]
Size(buffer) ==
  LET total[n \in 0 .. Len(buffer)] ==
        IF n = 0 THEN 0 ELSE total[n - 1] + Length(buffer[n].body, buffer[n].num)
  IN  total[Len(buffer)]

Message == [mid : 1 .. MaxMid, body : Bodies, num : Nat, more : BOOLEAN]
Codes == {"2.31", "2.04", "4.08", "4.13", "5.00"}

TypeOK ==
  /\ stale \in BOOLEAN
  /\ data \in [allocated : BOOLEAN, buffer : Seq([body : Bodies, num : Nat]),
              size : Nat, lastmid : 0 .. MaxMid]
  /\ sender \in [body : Bodies, num : Nat, mid : 0 .. MaxMid, state : {"idle", "sent"}]
  /\ net \subseteq Message
  /\ answers \subseteq [mid : 1 .. MaxMid, code : Codes]
  /\ run \in {"up", "crashed"}

Init ==
  /\ stale \in BOOLEAN
  /\ data = [allocated |-> FALSE, buffer |-> Absent, size |-> 0, lastmid |-> 0]
  /\ sender = [body |-> CHOOSE b \in Bodies : TRUE, num |-> 0, mid |-> 0, state |-> "idle"]
  /\ net = {} /\ answers = {} /\ handed = <<>> /\ run = "up"

-----------------------------------------------------------------------------
(* The server, and the network                                             *)

Emit(b, n) ==
  /\ sender.mid < MaxMid
  /\ sender' = [body |-> b, num |-> n, mid |-> sender.mid + 1, state |-> "sent"]
  /\ LET m == [mid |-> sender.mid + 1, body |-> b, num |-> n, more |-> n < Count(b) - 1]
     IN net' = IF n = 0 THEN {m} ELSE net \union {m}

\* A new transfer, whatever has become of the one before.
Begin(b) ==
  /\ Emit(b, 0)
  /\ answers' = {}
  /\ UNCHANGED <<stale, data, handed, run>>

\* The answer to the last message: on with the next block, or the end of the transfer.
Answered ==
  /\ sender.state = "sent"
  /\ \E a \in answers :
       /\ a.mid = sender.mid
       /\ IF a.code = "2.31" THEN Emit(sender.body, sender.num + 1)
          ELSE sender' = [sender EXCEPT !.state = "idle"] /\ UNCHANGED net
  /\ UNCHANGED <<stale, data, answers, handed, run>>

-----------------------------------------------------------------------------
(* coap_block1_handler                                                     *)

Answer(m, code) == answers' = answers \union {[mid |-> m.mid, code |-> code]}

\* More blocks are expected, or the body goes to handle_request.
Deliver(m, buffer) ==
  IF m.more THEN Answer(m, "2.31") /\ UNCHANGED handed
            ELSE Answer(m, "2.04") /\ handed' = buffer

Refuse(m, code) == Answer(m, code) /\ UNCHANGED <<data, handed, run>>

\* That the buffer of a first block can be allocated is taken for granted, as by the code.
First(m) ==
  /\ m.num = 0
  /\ \/ LET buffer == <<Piece(m.body, 0)>> IN
        /\ data' = [allocated |-> TRUE, buffer |-> buffer, size |-> Length(m.body, 0),
                    lastmid |-> m.mid]
        /\ Deliver(m, buffer)
        /\ UNCHANGED run
     \/ /\ "data" \in Failing /\ ~data.allocated
        /\ Refuse(m, "5.00")

Known(m) == m.num > 0 /\ data.allocated

Unknown(m) == m.num > 0 /\ ~data.allocated /\ Refuse(m, "4.08")

\* Mutant: a message is taken for new although it was the last one.
RepeatedAppends(m) ==
  /\ Known(m) /\ data.lastmid = m.mid
  /\ LET buffer == Append(data.buffer, Piece(m.body, m.num)) IN
     /\ data' = [data EXCEPT !.buffer = buffer, !.size = Size(buffer)]
     /\ Deliver(m, buffer)
  /\ UNCHANGED run

\* A retransmission: what is there is looked at again.
Repeated(m) ==
  /\ Known(m) /\ data.lastmid = m.mid
  /\ Deliver(m, data.buffer)
  /\ UNCHANGED <<data, run>>

OutOfOrder(m) ==
  /\ Known(m) /\ data.lastmid # m.mid
  /\ data.size # BlockSize * m.num
  /\ Refuse(m, "4.08")

\* Mutant: a block that is new counts as the next one.
InOrderAnyhow(m) == Known(m) /\ data.lastmid # m.mid

InOrder(m) == Known(m) /\ data.lastmid # m.mid /\ data.size = BlockSize * m.num

TooLarge(m) ==
  /\ InOrder(m) /\ data.size + Length(m.body, m.num) >= MAX_BLOCK1_SIZE
  /\ Refuse(m, "4.13")

Fits(m) == InOrder(m) /\ data.size + Length(m.body, m.num) < MAX_BLOCK1_SIZE

\* Mutant: the size stays that of the old buffer.
NoMemoryKeepsSize(m) ==
  /\ "append" \in Failing /\ Fits(m)
  /\ data' = [data EXCEPT !.buffer = Absent]
  /\ Answer(m, "5.00")
  /\ UNCHANGED <<handed, run>>

\* The old buffer is lost, and the size is that of the new one.
NoMemory(m) ==
  /\ "append" \in Failing /\ Fits(m)
  /\ data' = [data EXCEPT !.buffer = Absent, !.size = @ + Length(m.body, m.num)]
  /\ Answer(m, "5.00")
  /\ UNCHANGED <<handed, run>>

Store(m) ==
  /\ Fits(m)
  /\ IF data.buffer = Absent  \* what is copied
     THEN run' = "crashed" /\ UNCHANGED <<data, answers, handed>>
     ELSE LET buffer == Append(data.buffer, Piece(m.body, m.num)) IN
          /\ data' = [data EXCEPT !.buffer = buffer, !.size = @ + Length(m.body, m.num),
                                  !.lastmid = m.mid]
          /\ Deliver(m, buffer)
          /\ UNCHANGED run

Receive(m) ==
  /\ run = "up" /\ (stale \/ m.mid = sender.mid)
  /\ \/ First(m) \/ Unknown(m) \/ Repeated(m) \/ OutOfOrder(m) \/ TooLarge(m)
     \/ NoMemory(m) \/ Store(m)
  /\ UNCHANGED <<stale, sender, net>>

Next ==
  \/ \E b \in Bodies : Begin(b)
  \/ Answered
  \/ \E m \in net : Receive(m)

Spec == Init /\ [][Next]_vars

-----------------------------------------------------------------------------
(* Properties                                                              *)

\* What is accumulated is the beginning of one body, in its order, and of the size that
\* the order of the next block is judged by.
BufferIsPrefix ==
  data.allocated /\ data.buffer # Absent =>
    /\ data.size = Size(data.buffer)
    /\ \E b \in Bodies : IsPrefix(data.buffer, Whole(b))

\* handle_request gets a body as the server meant it.
WholeBody == handed # <<>> => \E b \in Bodies : handed = Whole(b)

\* As long as no message is overtaken, no block is appended to the buffer that a failing
\* malloc has left missing: the size, which has grown, keeps the retransmission of the
\* block out, and the server does not go on to the next.
NeverCopiesNull == stale \/ run = "up"
=============================================================================
