----------------------------- MODULE MCPackets -----------------------------
(* Packets on small budgets: ten bytes of text and a label of six or eight. *)
EXTENDS PacketsProperties

\* A line of characters of one width, and one of several.
Of(count, width) ==
  [length |-> count, newlines |-> {}, bytes |-> [i \in 0 .. count |-> width * i]]

Mixed ==
  LET ends == <<0, 1, 5, 8, 9, 13, 15>>
  IN  [length |-> 6, newlines |-> {}, bytes |-> [i \in 0 .. 6 |-> ends[i + 1]]]

\* Empty, short, just within and just beyond the bytes a labelled and an unlabelled
\* packet take, and enough for ten packets and more.
Lines ==
  {Of(0, 1), Of(2, 1), Of(8, 1), Of(9, 1), Of(14, 1), Of(15, 1), Mixed, Of(10, 3),
   Of(26, 1), Of(36, 4)}

\* Two texts with a newline between them.
Joined(s, t) ==
  LET first == s.length + 1
  IN  [length   |-> first + t.length,
       newlines |-> s.newlines \cup {first} \cup {first + i : i \in t.newlines},
       bytes    |-> [i \in 0 .. first + t.length |->
                       IF i < first THEN s.bytes[i]
                       ELSE s.bytes[s.length] + 1 + t.bytes[i - first]]]

OfTwo == {Joined(s, t) : s, t \in Lines}

\* All of up to four lines.
MCTexts == Lines \cup OfTwo \cup {Joined(s, t) : s \in Lines \cup OfTwo, t \in OfTwo}
=============================================================================
