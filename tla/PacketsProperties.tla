------------------------- MODULE PacketsProperties -------------------------
(* What the recipient of a reply cut into packets may rely on.             *)
EXTENDS Packets

PacketBytes(no) ==
  LabelBytes(no, n) + Bytes(packets[no].from, packets[no].to)

\* Read in the order of their labels the packets are the text: the first begins with it,
\* each begins where the one before it ended, but for the newline between two lines, and
\* the last ends with it, whatever two passes and the cutting of long lines did.
NothingLost ==
  pc = "done" =>
    /\ packets # <<>> /\ packets[1].from = 0 /\ packets[Len(packets)].to = end
    /\ \A i \in 1 .. Len(packets) - 1 :
         LET ended == packets[i].to
         IN  \/ packets[i + 1].from = ended
             \/ packets[i + 1].from = ended + 1 /\ ended + 1 \in text.newlines

Begins == {0} \cup text.newlines

IsLine(from, to) == from \in Begins /\ LineEnds(from, to)

\* "Splitting is line-aware: we never break mid-line": a line is cut only if no packet
\* could hold it with its label.
WholeLines ==
  pc = "done" =>
    \A from \in Begins, to \in 0 .. end, i \in DOMAIN packets :
      /\ LineEnds(from, to) /\ Bytes(from, to) + LabelBytes(n, n) <= packet_bytes
      /\ from < packets[i].to /\ packets[i].from < to
      => packets[i].from <= from /\ to <= packets[i].to

\* Whoever has the first k packets and reads "of n" knows what is missing: n packets do
\* come, although n was counted before the labels took their share (more may come, and
\* are labelled beyond n).
AnnouncedComes == pc = "done" => n <= Len(packets)

\* Only a line of its own can be too long for the radio: lines that were joined, and
\* chunks of a line that was cut, are at most the digits longer than a packet that their
\* number has more than the count they were budgeted with.
JoinedLinesFit ==
  pc = "done" /\ LabelBytes(n, n) + min_budget <= packet_bytes =>
    \A i \in DOMAIN packets :
      \/ IsLine(packets[i].from, packets[i].to)
      \/ PacketBytes(i) <= packet_bytes + LabelBytes(i, n) - LabelBytes(n, n)

\* "If a single line exceeds the packet limit, it's hard-wrapped": no packet of up to nine
\* is longer than the radio carries.
LongLinesWrapped ==
  pc = "done" /\ Len(packets) < 10 =>
    \A i \in DOMAIN packets : PacketBytes(i) <= packet_bytes
=============================================================================
