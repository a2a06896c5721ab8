------------------------------ MODULE Packets ------------------------------
(***************************************************************************)
(* How a reply is cut into packets: split_packets, _pack_lines and         *)
(* _hard_wrap of format.py, one line or one chunk at a time.               *)
(*                                                                         *)
(* Of a text only its sizes matter: how many bytes of UTF-8 its first i    *)
(* characters take, and which of them are newlines.  A piece of it is what *)
(* lies behind its first "from" characters up to character "to"; lines     *)
(* joined by newlines are a piece like any other.                          *)
(***************************************************************************)
EXTENDS Integers, Sequences, FiniteSets

CONSTANTS
  packet_bytes,   \* 140 in the code
  min_budget,     \* 16
  Texts           \* the replies to be sent

ASSUME BudgetAssumption ==
  /\ packet_bytes \in Nat /\ min_budget \in Nat
  /\ 4 <= min_budget /\ min_budget <= packet_bytes

\* A character takes one to four bytes, a newline one.
IsText(t) ==
  /\ t.length \in Nat
  /\ t.newlines \subseteq 1 .. t.length
  /\ t.bytes \in [0 .. t.length -> Nat]
  /\ \A j \in 1 .. t.length : \A i \in 0 .. j - 1 : t.bytes[i] < t.bytes[j]
  /\ \A j \in 1 .. t.length :
       t.bytes[j] <= t.bytes[j - 1] + (IF j \in t.newlines THEN 1 ELSE 4)

ASSUME TextAssumption == \A t \in Texts : IsText(t)

EmptyText == [length |-> 0, newlines |-> {}, bytes |-> [i \in {0} |-> 0]]

VARIABLES
  pc,         \* "idle", "measure": split_packets begins, "line" and "wrap": the loops of
              \* _pack_lines and _hard_wrap, "done": it returns
  text,       \* the reply
  end,        \* its characters without the newlines at the end
  n,          \* packets counted by the first pass, 0 before: what the labels say
  raw,        \* and those packets
  budget,     \* bytes to a packet in this pass
  pos,        \* characters of the lines, and chunks of a line, taken so far
  packets,    \* pieces cut in this pass
  cur,        \* the lines collected for the next one, if any, as one piece
  cur_size    \* and their bytes

vars == <<pc, text, end, n, raw, budget, pos, packets, cur, cur_size>>

Init ==
  /\ pc = "idle"
  /\ text = EmptyText /\ end = 0
  /\ n = 0 /\ raw = <<>> /\ budget = packet_bytes
  /\ pos = 0 /\ packets = <<>> /\ cur = <<>> /\ cur_size = 0

-----------------------------------------------------------------------------
Piece(from, to) == [from |-> from, to |-> to]

\* _utf8_len of a piece.
Bytes(from, to) == text.bytes[to] - text.bytes[from]

\* Digits of the numbers in a label "(no/of) ", and its bytes, if there is one.
Digits(k) == 1 + Cardinality({power \in {10, 100, 1000, 10000} : power <= k})
LabelBytes(no, of) == IF of = 0 THEN 0 ELSE Digits(no) + Digits(of) + 4

\* A line of text.split("\n"), or what is left of it, from a place within it.
LineEnds(from, to) ==
  /\ to \in from .. end
  /\ to = end \/ to + 1 \in text.newlines
  /\ \A c \in from + 1 .. to : c \notin text.newlines

\* Mutant of LineBytes: the newline that joins the line is not counted.
LineBytesAlone(to) == Bytes(pos, to)

\* line_bytes: the next line, with the newline that joins it to the others.
LineBytes(to) == Bytes(pos, to) + (IF cur = <<>> THEN 0 ELSE 1)

TooLong(to) == Bytes(pos, to) > budget

Overflows(to) == cur # <<>> /\ cur_size + LineBytes(to) > budget

\* Mutant of Budget: the label comes on top of the packet's bytes.
BudgetWithoutLabel(k) == packet_bytes + LabelBytes(k, k)

\* Mutant of Budget: the fixed worst-case headroom that the dynamic one replaces.
BudgetWorstCase(k) == min_budget

\* What the label leaves of a packet when k packets are expected.
Budget(k) ==
  IF packet_bytes < LabelBytes(k, k) + min_budget THEN min_budget
  ELSE packet_bytes - LabelBytes(k, k)

-----------------------------------------------------------------------------
\* _enqueue_reply has a text to split.
Reply ==
  /\ pc = "idle"
  /\ text' \in Texts
  /\ pc' = "measure"
  /\ UNCHANGED <<end, n, raw, budget, pos, packets, cur, cur_size>>

\* text.rstrip("\n"); what fits a packet is one.
Measure ==
  /\ pc = "measure"
  /\ end' \in 0 .. text.length
  /\ end' = 0 \/ end' \notin text.newlines
  /\ \A c \in end' + 1 .. text.length : c \in text.newlines
  /\ IF Bytes(0, end') <= packet_bytes
     THEN pc' = "done" /\ packets' = <<Piece(0, end')>>
     ELSE pc' = "line" /\ packets' = packets
  /\ UNCHANGED <<text, n, raw, budget, pos, cur, cur_size>>

\* A line that does not fit behind those collected begins a packet, however long it is.
BeginPacket(to) ==
  /\ pc = "line" /\ LineEnds(pos, to)
  /\ Overflows(to)
  /\ packets' = packets \o cur
  /\ cur' = <<Piece(pos, to)>> /\ cur_size' = Bytes(pos, to)
  /\ pos' = to + 1
  /\ UNCHANGED <<pc, text, end, n, raw, budget>>

Join(to) ==
  /\ pc = "line" /\ LineEnds(pos, to)
  /\ ~Overflows(to) /\ ~TooLong(to)
  /\ cur' = <<Piece(IF cur = <<>> THEN pos ELSE cur[1].from, to)>>
  /\ cur_size' = cur_size + LineBytes(to)
  /\ pos' = to + 1
  /\ UNCHANGED <<pc, text, end, n, raw, budget, packets>>

\* A line too long for any packet is cut, after what was collected.
BeginWrap(to) ==
  /\ pc = "line" /\ LineEnds(pos, to)
  /\ ~Overflows(to) /\ TooLong(to)
  /\ packets' = packets \o cur
  /\ cur' = <<>> /\ cur_size' = 0
  /\ pc' = "wrap"
  /\ UNCHANGED <<text, end, n, raw, budget, pos>>

\* Mutant of AfterChunk: the character that did not fit begins no new chunk.
AfterChunkSkips(to) == to + 1

\* The character that did not fit begins the next chunk.
AfterChunk(to) == to

\* _hard_wrap cuts a chunk as long as the budget allows, and no character in two.
Chunk(to) ==
  /\ pc = "wrap" /\ to \in pos + 1 .. end - 1
  /\ Bytes(pos, to) <= budget /\ Bytes(pos, to + 1) > budget
  /\ \A c \in pos + 1 .. to + 1 : c \notin text.newlines
  /\ packets' = Append(packets, Piece(pos, to))
  /\ pos' = AfterChunk(to)
  /\ UNCHANGED <<pc, text, end, n, raw, budget, cur, cur_size>>

LastChunk(to) ==
  /\ pc = "wrap" /\ LineEnds(pos, to)
  /\ Bytes(pos, to) <= budget
  /\ packets' = Append(packets, Piece(pos, to))
  /\ pos' = to + 1
  /\ pc' = "line"
  /\ UNCHANGED <<text, end, n, raw, budget, cur, cur_size>>

\* The end of the first pass, without labels: they are needed for several packets.
EndFirst ==
  /\ pc = "line" /\ pos > end /\ n = 0
  /\ LET all == packets \o cur
     IN  IF Len(all) = 1
         THEN /\ pc' = "done" /\ packets' = all
              /\ UNCHANGED <<n, raw, budget, pos>>
         ELSE /\ n' = Len(all) /\ raw' = all /\ budget' = Budget(Len(all))
              /\ packets' = <<>> /\ pos' = 0
              /\ pc' = pc
  /\ cur' = <<>> /\ cur_size' = 0
  /\ UNCHANGED <<text, end>>

\* The end of the second: each packet gets its label, which says of how many.
EndSecond ==
  /\ pc = "line" /\ pos > end /\ n # 0
  /\ packets' = packets \o cur
  /\ cur' = <<>> /\ cur_size' = 0
  /\ pc' = "done"
  /\ UNCHANGED <<text, end, n, raw, budget, pos>>

\* The packets go to the queue.
Return ==
  /\ pc = "done"
  /\ pc' = "idle"
  /\ text' = EmptyText /\ end' = 0
  /\ n' = 0 /\ raw' = <<>> /\ budget' = packet_bytes
  /\ pos' = 0 /\ packets' = <<>> /\ UNCHANGED <<cur, cur_size>>

Next ==
  \/ Reply \/ Measure \/ EndFirst \/ EndSecond \/ Return
  \/ \E to \in pos .. end :
       BeginPacket(to) \/ Join(to) \/ BeginWrap(to) \/ Chunk(to) \/ LastChunk(to)

Spec == Init /\ [][Next]_vars
=============================================================================
