--------------------------- MODULE PacketsProofs ---------------------------
(***************************************************************************)
(* Proofs of what a reader may rely on, for any texts and any size of      *)
(* packets.  The definitions and lemmas of the first parts are about one   *)
(* text T whose part up to character e is cut with budget b.               *)
(***************************************************************************)
EXTENDS PacketsProperties, SequenceTheorems, FiniteSetTheorems, TLAPS

Pieces == [from : Nat, to : Nat]

Size(T, from, to) == T.bytes[to] - T.bytes[from]

Inside(T, from, to, c) == from < c /\ c <= to /\ c \in T.newlines

\* Where a line can begin and end, and the lines.
Start(T, from) == from = 0 \/ from \in T.newlines
End(T, e, to) == to = e \/ to + 1 \in T.newlines

Line(T, e, from, to) ==
  /\ from \in Nat /\ to \in Nat /\ from <= to /\ to <= e
  /\ Start(T, from) /\ End(T, e, to)
  /\ \A c \in Nat : ~Inside(T, from, to, c)

\* A line no longer than b ends before a place; all that do are longer.
ShortBefore(T, e, place, b) ==
  \E f, t \in Nat : Line(T, e, f, t) /\ t < place /\ Size(T, f, t) <= b
LongBefore(T, e, place, b) ==
  \A f, t \in Nat : Line(T, e, f, t) /\ t < place => Size(T, f, t) > b

\* A chunk of the line (f, t), which is too long.
ChunkOf(T, e, p, b, f, t) ==
  /\ Line(T, e, f, t) /\ Size(T, f, t) > b
  /\ f <= p.from /\ p.from < p.to /\ p.to <= t
  /\ Size(T, p.from, p.to) <= b

\* What a piece can be: lines that fit, a line that does not but is not the first that
\* was collected, or a chunk.
Good(T, e, p, b) ==
  \/ Start(T, p.from) /\ End(T, e, p.to) /\ Size(T, p.from, p.to) <= b
  \/ Line(T, e, p.from, p.to) /\ ShortBefore(T, e, p.from, b)
  \/ \E f, t \in Nat : ChunkOf(T, e, p, b, f, t)

\* Why a piece ends where it does: the next line would not have fitted, or it is a chunk
\* to which the next character was too much, or that ends its line; cutting goes on only
\* while every line is too long.
Full(T, e, p, b) ==
  \/ /\ p.to + 1 \in T.newlines
     /\ \E t \in Nat : Line(T, e, p.to + 1, t) /\ Size(T, p.from, t) > b
  \/ /\ LongBefore(T, e, p.from, b)
     /\ \E f, t \in Nat :
          /\ ChunkOf(T, e, p, b, f, t)
          /\ p.to < t => Size(T, p.from, p.to + 1) > b

\* Where the piece after one that ends with character c begins.
After(T, c) == IF c + 1 \in T.newlines THEN c + 1 ELSE c

\* A piece may begin here after the pieces s.
Begin(T, s, from) == from = IF s = <<>> THEN 0 ELSE After(T, s[Len(s)].to)

\* Pieces that follow each other.
Chained(T, e, s) ==
  /\ s \in Seq(Pieces)
  /\ s # <<>> => s[1].from = 0
  /\ \A i \in 1 .. Len(s) : s[i].from <= s[i].to /\ s[i].to <= e
  /\ \A i, j \in 1 .. Len(s) : i < j => s[i].to < s[j].to
  /\ \A i, j \in 1 .. Len(s) : j = i + 1 => s[j].from = After(T, s[i].to)

AllGood(T, e, s, b) == \A i \in 1 .. Len(s) : Good(T, e, s[i], b)

FullBefore(T, e, s, b, k) == \A i \in 1 .. Len(s) : i < k => Full(T, e, s[i], b)

\* The pieces end no later than those with the same numbers in r.
Behind(s, r) == \A i \in 1 .. Len(s) : i <= Len(r) => s[i].to <= r[i].to

-----------------------------------------------------------------------------
(* The inductive invariant                                                 *)

\* The pieces of a first pass that has ended.
Counted(T, e, r, b) ==
  /\ Chained(T, e, r) /\ FullBefore(T, e, r, b, Len(r))
  /\ r # <<>> /\ r[Len(r)].to = e

\* The lines collected so far are p, and take size bytes.
Collected(T, e, s, p, place, size, b) ==
  /\ p.from <= p.to /\ p.to + 1 = place /\ place <= e + 1
  /\ place = e + 1 \/ place \in T.newlines
  /\ Begin(T, s, p.from) /\ Start(T, p.from)
  /\ s # <<>> => s[Len(s)].to < p.to
  /\ size = Size(T, p.from, p.to)
  /\ ShortBefore(T, e, place, b)
  /\ Good(T, e, p, b)

\* Nothing is collected: the next line, or a chunk of the line (f, t), is to come.
NextLine(T, e, s, place) ==
  \/ place = 0 /\ s = <<>>
  \/ /\ place = e + 1 \/ (place <= e /\ place \in T.newlines)
     /\ s # <<>> /\ s[Len(s)].to + 1 = place

Wrapping(T, e, s, place, b) ==
  /\ Begin(T, s, place)
  /\ s # <<>> => s[Len(s)].to <= place
  /\ \E f, t \in Nat : /\ Line(T, e, f, t) /\ f <= place /\ place < t
                       /\ Size(T, f, t) > b

Types ==
  /\ pc \in {"idle", "measure", "line", "wrap", "done"}
  /\ IsText(text) /\ end \in 0 .. text.length
  /\ n \in Nat /\ pos \in Nat /\ budget \in Nat
  /\ budget = IF n = 0 THEN packet_bytes ELSE Budget(n)
  /\ packets \in Seq(Pieces) /\ raw \in Seq(Pieces)
  /\ cur = <<>> \/ \E p \in Pieces : cur = <<p>>

Begun ==
  pc \in {"idle", "measure"} =>
    end = 0 /\ n = 0 /\ packets = <<>> /\ pos = 0 /\ cur = <<>> /\ cur_size = 0

Passing ==
  pc \in {"line", "wrap"} =>
    /\ Chained(text, end, packets) /\ AllGood(text, end, packets, budget)
    /\ FullBefore(text, end, packets, budget, Len(packets) + 1)
    /\ cur # <<>> =>
         pc = "line" /\ Collected(text, end, packets, cur[1], pos, cur_size, budget)
    /\ cur = <<>> => cur_size = 0 /\ LongBefore(text, end, pos, budget)
    /\ cur = <<>> /\ pc = "line" => NextLine(text, end, packets, pos)
    /\ pc = "wrap" => Wrapping(text, end, packets, pos, budget)
    /\ n # 0 => /\ n = Len(raw) /\ Counted(text, end, raw, packet_bytes)
                /\ Behind(packets, raw)

Finished ==
  pc = "done" =>
    /\ Chained(text, end, packets) /\ AllGood(text, end, packets, budget)
    /\ packets # <<>> /\ packets[Len(packets)].to = end
    /\ n <= Len(packets)
    /\ cur = <<>> /\ cur_size = 0

Split == Types /\ Begun /\ Passing /\ Finished
-----------------------------------------------------------------------------
(* Texts and lines                                                         *)

\* More characters take more bytes, and a newline takes one.
LEMMA TextFacts ==
  ASSUME NEW T, IsText(T)
  PROVE  /\ T.length \in Nat
         /\ \A c \in T.newlines : c \in Nat /\ 0 < c /\ c <= T.length
         /\ \A i \in 0 .. T.length : T.bytes[i] \in Nat
         /\ \A i, j \in 0 .. T.length : i < j => T.bytes[i] < T.bytes[j]
         /\ \A i, j \in 0 .. T.length : i <= j => T.bytes[i] <= T.bytes[j]
         /\ \A i \in 0 .. T.length :
              i + 1 \in T.newlines => T.bytes[i + 1] = T.bytes[i] + 1
<1>1. /\ T.length \in Nat
      /\ \A c \in T.newlines : c \in Nat /\ 0 < c /\ c <= T.length
      /\ \A i \in 0 .. T.length : T.bytes[i] \in Nat
  BY DEF IsText
<1>2. \A i, j \in 0 .. T.length : i < j => T.bytes[i] < T.bytes[j]
  BY <1>1 DEF IsText
<1>3. \A i, j \in 0 .. T.length : i <= j => T.bytes[i] <= T.bytes[j]
  BY <1>1, <1>2
<1>4. ASSUME NEW i \in 0 .. T.length, i + 1 \in T.newlines
      PROVE  T.bytes[i + 1] = T.bytes[i] + 1
  <2>1. i + 1 \in 1 .. T.length /\ i + 1 - 1 = i /\ i < i + 1
    BY <1>1, <1>4
  <2>2. T.bytes[i + 1] <= T.bytes[i] + 1
    BY <1>4, <2>1 DEF IsText
  <2>3. T.bytes[i] < T.bytes[i + 1]
    BY <1>2, <2>1
  <2>4. QED
    BY <1>1, <2>1, <2>2, <2>3
<1>5. QED
  BY <1>1, <1>2, <1>3, <1>4

\* Two lines that touch the same characters are one.
LEMMA OneLine ==
  ASSUME NEW T, NEW e, e \in Nat, IsText(T),
         NEW f \in Nat, NEW t \in Nat, NEW g \in Nat, NEW u \in Nat,
         Line(T, e, f, t), Line(T, e, g, u), f <= u, g <= t
  PROVE  f = g /\ t = u
  BY DEF Line, Start, End, Inside

\* A piece that begins no later than one that is full ends no later, even if it may be
\* cut with a smaller budget.
LEMMA Dominated ==
  ASSUME NEW T, IsText(T), NEW e \in 0 .. T.length, NEW b \in Nat, NEW c \in Nat, c <= b,
         NEW p \in Pieces, NEW q \in Pieces,
         Good(T, e, p, c), Full(T, e, q, b),
         p.from <= q.from, q.from <= q.to, q.to <= e, p.from <= p.to, p.to <= e
  PROVE  p.to <= q.to
<1> SUFFICES ASSUME q.to < p.to PROVE FALSE
  BY DEF Pieces
<1>1. /\ T.length \in Nat /\ e \in Nat
      /\ \A i \in 0 .. T.length : T.bytes[i] \in Nat
      /\ \A i, j \in 0 .. T.length : i <= j => T.bytes[i] <= T.bytes[j]
  BY TextFacts
<1>2. /\ p.from \in 0 .. T.length /\ p.to \in 0 .. T.length
      /\ q.from \in 0 .. T.length /\ q.to \in 0 .. T.length
  BY <1>1 DEF Pieces
<1>3. CASE q.to + 1 \in T.newlines /\ \E t \in Nat :
             Line(T, e, q.to + 1, t) /\ Size(T, q.from, t) > b
  <2>1. PICK t \in Nat : Line(T, e, q.to + 1, t) /\ Size(T, q.from, t) > b
    BY <1>3
  <2>2. Inside(T, p.from, p.to, q.to + 1) /\ q.to + 1 \in Nat
    BY <1>2, <1>3 DEF Inside
  <2>3. CASE Start(T, p.from) /\ End(T, e, p.to) /\ Size(T, p.from, p.to) <= c
    <3>1. t <= p.to /\ t \in 0 .. T.length
      BY <1>1, <1>2, <2>1, <2>3 DEF Line, End, Inside
    <3>2. T.bytes[t] <= T.bytes[p.to] /\ T.bytes[p.from] <= T.bytes[q.from]
      BY <1>1, <1>2, <3>1
    <3>3. QED
      BY <1>1, <1>2, <2>1, <2>3, <3>1, <3>2 DEF Size
  <2>4. CASE Line(T, e, p.from, p.to)
    BY <2>2, <2>4 DEF Line
  <2>5. CASE \E f, t2 \in Nat : ChunkOf(T, e, p, c, f, t2)
    BY <1>1, <1>2, <2>2, <2>5 DEF ChunkOf, Line, Inside
  <2>6. QED
    BY <2>3, <2>4, <2>5 DEF Good
<1>4. CASE LongBefore(T, e, q.from, b) /\ \E f, t \in Nat :
             /\ ChunkOf(T, e, q, b, f, t)
             /\ q.to < t => Size(T, q.from, q.to + 1) > b
  <2>1. PICK f \in Nat, t \in Nat :
          /\ ChunkOf(T, e, q, b, f, t)
          /\ q.to < t => Size(T, q.from, q.to + 1) > b
    BY <1>4
  <2>2. /\ Line(T, e, f, t) /\ Size(T, f, t) > b /\ f \in 0 .. T.length
        /\ t \in 0 .. T.length /\ f <= q.from /\ q.from < q.to /\ q.to <= t /\ t <= e
    <3>1. /\ Line(T, e, f, t) /\ Size(T, f, t) > b
          /\ f <= q.from /\ q.from < q.to /\ q.to <= t
      BY <2>1 DEF ChunkOf
    <3>2. t <= e /\ f <= t
      BY <3>1 DEF Line
    <3>3. QED
      BY <1>1, <3>1, <3>2
  <2>3. CASE Start(T, p.from) /\ End(T, e, p.to) /\ Size(T, p.from, p.to) <= c
    <3>1. p.from <= f
      BY <1>2, <2>2, <2>3 DEF Start, Line, Inside
    <3>2. t <= p.to
      BY <1>1, <1>2, <2>2, <2>3 DEF End, Line, Inside
    <3>3. T.bytes[t] <= T.bytes[p.to] /\ T.bytes[p.from] <= T.bytes[f]
      BY <1>1, <1>2, <2>2, <3>1, <3>2
    <3>4. QED
      BY <1>1, <1>2, <2>2, <2>3, <3>3 DEF Size
  <2>4. CASE Line(T, e, p.from, p.to) /\ ShortBefore(T, e, p.from, c)
    <3>1. f = p.from
      <4>1. p.from \in Nat /\ p.to \in Nat /\ f <= p.to /\ p.from <= t
        BY <1>1, <1>2, <2>2
      <4>2. Line(T, e, f, t) /\ Line(T, e, p.from, p.to) /\ e \in Nat
        BY <1>1, <2>2, <2>4
      <4>3. QED
        BY <4>1, <4>2, OneLine
    <3>2. PICK g \in Nat, u \in Nat :
            Line(T, e, g, u) /\ u < p.from /\ Size(T, g, u) <= c
      BY <2>4 DEF ShortBefore
    <3>3. Size(T, g, u) > b
      BY <1>2, <1>4, <3>2 DEF LongBefore
    <3>4. g \in 0 .. T.length /\ u \in 0 .. T.length
      BY <1>1, <3>2 DEF Line
    <3>5. QED
      BY <1>1, <3>2, <3>3, <3>4 DEF Size
  <2>5. CASE \E g, u \in Nat : ChunkOf(T, e, p, c, g, u)
    <3>1. PICK g \in Nat, u \in Nat : ChunkOf(T, e, p, c, g, u)
      BY <2>5
    <3>2. /\ Line(T, e, g, u) /\ g <= p.from /\ p.to <= u
          /\ Size(T, p.from, p.to) <= c
      BY <3>1 DEF ChunkOf
    <3>3. t = u
      <4>1. f <= u /\ g <= t
        BY <1>1, <1>2, <2>2, <3>2
      <4>2. QED
        BY <1>1, <2>2, <3>2, <4>1, OneLine
    <3>4. q.to + 1 \in 0 .. T.length /\ q.to + 1 <= p.to /\ q.to < t
      BY <1>1, <1>2, <3>2, <3>3
    <3>5. T.bytes[q.to + 1] <= T.bytes[p.to] /\ T.bytes[p.from] <= T.bytes[q.from]
      BY <1>1, <1>2, <3>4
    <3>6. Size(T, q.from, q.to + 1) > b /\ Size(T, p.from, p.to) <= c
      BY <2>1, <3>2, <3>4
    <3>7. QED
      BY <1>1, <1>2, <3>4, <3>5, <3>6 DEF Size
  <2>6. QED
    BY <2>3, <2>4, <2>5 DEF Good
<1>5. QED
  BY <1>3, <1>4 DEF Full

-----------------------------------------------------------------------------
(* Pieces                                                                  *)

\* What is at the end of a sequence.
LEMMA AtEnd ==
  ASSUME NEW s \in Seq(Pieces), NEW p \in Pieces
  PROVE  /\ Append(s, p) \in Seq(Pieces) /\ Append(s, p) # <<>>
         /\ Len(s) \in Nat /\ Len(Append(s, p)) = Len(s) + 1
         /\ (s = <<>> <=> Len(s) = 0)
         /\ \A i \in 1 .. Len(s) : Append(s, p)[i] = s[i] /\ s[i] \in Pieces
         /\ Append(s, p)[Len(s) + 1] = p
         /\ s \o <<p>> = Append(s, p) /\ s \o <<>> = s
<1>1. Len(s) \in Nat /\ s = <<>> <=> Len(s) = 0
  BY EmptySeq, LenProperties
<1>2. /\ Append(s, p) \in Seq(Pieces) /\ Len(Append(s, p)) = Len(s) + 1
      /\ \A i \in 1 .. Len(s) : Append(s, p)[i] = s[i]
      /\ Append(s, p)[Len(s) + 1] = p
  BY AppendProperties
<1>3. Append(s, p) # <<>>
  BY <1>1, <1>2, EmptySeq
<1>4. \A i \in 1 .. Len(s) : s[i] \in Pieces
  BY ElementOfSeq
<1>5. s \o <<p>> = Append(s, p) /\ s \o <<>> = s
  BY AppendIsConcat, ConcatEmptySeq
<1>6. QED
  BY <1>1, <1>2, <1>3, <1>4, <1>5

\* The piece at the end of a sequence that has one.
LEMMA LastPiece ==
  ASSUME NEW s \in Seq(Pieces), s # <<>>
  PROVE  Len(s) \in Nat \ {0} /\ s[Len(s)] \in Pieces /\ s[Len(s)].to \in Nat
<1>1. Len(s) \in Nat \ {0}
  BY EmptySeq
<1>2. Len(s) \in 1 .. Len(s)
  BY <1>1
<1>3. s[Len(s)] \in Pieces
  BY <1>2, ElementOfSeq
<1>4. QED
  BY <1>1, <1>3 DEF Pieces

\* A piece put behind others that it follows.
LEMMA AppendPiece ==
  ASSUME NEW T, NEW e \in Nat, NEW b \in Nat, NEW s, Chained(T, e, s), NEW p \in Pieces,
         Begin(T, s, p.from), p.from <= p.to, p.to <= e,
         s # <<>> => s[Len(s)].to < p.to
  PROVE  /\ Chained(T, e, Append(s, p)) /\ Append(s, p) # <<>>
         /\ Append(s, p)[Len(Append(s, p))] = p
         /\ AllGood(T, e, s, b) /\ Good(T, e, p, b) => AllGood(T, e, Append(s, p), b)
         /\ FullBefore(T, e, s, b, Len(s) + 1) =>
              FullBefore(T, e, Append(s, p), b, Len(Append(s, p)))
         /\ FullBefore(T, e, s, b, Len(s) + 1) /\ Full(T, e, p, b) =>
              FullBefore(T, e, Append(s, p), b, Len(Append(s, p)) + 1)
<1> DEFINE t == Append(s, p)
           m == Len(s)
<1>1. /\ t \in Seq(Pieces) /\ t # <<>> /\ m \in Nat /\ Len(t) = m + 1
      /\ (s = <<>> <=> m = 0) /\ t[m + 1] = p
      /\ \A i \in 1 .. m : t[i] = s[i] /\ s[i] \in Pieces
  BY AtEnd DEF Chained
<1> HIDE DEF t, m
<1>2. /\ s # <<>> => s[1].from = 0
      /\ \A i \in 1 .. m : s[i].from <= s[i].to /\ s[i].to <= e
      /\ \A i, j \in 1 .. m : i < j => s[i].to < s[j].to
      /\ \A i, j \in 1 .. m : j = i + 1 => s[j].from = After(T, s[i].to)
      /\ s # <<>> => s[m].to < p.to
      /\ p.from = IF s = <<>> THEN 0 ELSE After(T, s[m].to)
  BY DEF m, Chained, Begin
<1>3. t[1].from = 0
  BY <1>1, <1>2
<1>4. \A i \in 1 .. m + 1 : t[i].from <= t[i].to /\ t[i].to <= e
  BY <1>1, <1>2
<1>5. ASSUME NEW i \in 1 .. m + 1, NEW j \in 1 .. m + 1, i < j
      PROVE  t[i].to < t[j].to
  <2>1. CASE j \in 1 .. m
    <3>1. i \in 1 .. m
      BY <1>1, <1>5, <2>1
    <3>2. s[i].to < s[j].to
      BY <1>2, <1>5, <2>1, <3>1
    <3>3. QED
      BY <1>1, <2>1, <3>1, <3>2
  <2>2. CASE j = m + 1 /\ i < m
    <3>1. i \in 1 .. m /\ m \in 1 .. m
      BY <1>1, <2>2
    <3>2. s[i].to < s[m].to /\ s[m].to < p.to
      BY <1>1, <1>2, <2>2, <3>1
    <3>3. s[i].to \in Nat /\ s[m].to \in Nat /\ p.to \in Nat
      BY <1>1, <3>1 DEF Pieces
    <3>4. QED
      BY <1>1, <2>2, <3>1, <3>2, <3>3
  <2>3. CASE j = m + 1 /\ i = m
    BY <1>1, <1>2, <2>3
  <2>4. QED
    BY <1>1, <1>5, <2>1, <2>2, <2>3
<1>6. ASSUME NEW i \in 1 .. m + 1, NEW j \in 1 .. m + 1, j = i + 1
      PROVE  t[j].from = After(T, t[i].to)
  <2>1. CASE j \in 1 .. m
    BY <1>1, <1>2, <1>6, <2>1
  <2>2. CASE j = m + 1
    BY <1>1, <1>2, <1>6, <2>2
  <2>3. QED
    BY <1>1, <2>1, <2>2
<1>7. Chained(T, e, t)
  BY <1>1, <1>3, <1>4, <1>5, <1>6 DEF Chained
<1>8. AllGood(T, e, s, b) /\ Good(T, e, p, b) => AllGood(T, e, t, b)
  BY <1>1 DEF AllGood, m
<1>9. FullBefore(T, e, s, b, m + 1) => FullBefore(T, e, t, b, m + 1)
  BY <1>1 DEF FullBefore, m
<1>10. FullBefore(T, e, s, b, m + 1) /\ Full(T, e, p, b) => FullBefore(T, e, t, b, m + 2)
  BY <1>1 DEF FullBefore, m
<1>11. t[Len(t)] = p /\ m + 1 + 1 = m + 2
  BY <1>1
<1>12. QED
  BY <1>1, <1>7, <1>8, <1>9, <1>10, <1>11 DEF t, m

\* A piece that begins with the text.
LEMMA SinglePiece ==
  ASSUME NEW T, NEW e, NEW b, NEW s \in Seq(Pieces), Len(s) = 1, s[1].from = 0,
         s[1].from <= s[1].to, s[1].to <= e, Good(T, e, s[1], b)
  PROVE  Chained(T, e, s) /\ AllGood(T, e, s, b)
<1>1. \A i \in 1 .. Len(s) : i = 1
  OBVIOUS
<1>2. QED
  BY <1>1 DEF Chained, AllGood

\* What the second pass cuts stays behind what the first one cut.
LEMMA StaysBehind ==
  ASSUME NEW T, IsText(T), NEW e \in 0 .. T.length, NEW b \in Nat, NEW c \in Nat, c <= b,
         NEW r, Counted(T, e, r, b), NEW s, Chained(T, e, s), Behind(s, r),
         NEW p \in Pieces, Good(T, e, p, c), Begin(T, s, p.from), p.from <= p.to, p.to <= e
  PROVE  Behind(Append(s, p), r)
<1> DEFINE t == Append(s, p)
           k == Len(s) + 1
<1>1. /\ Len(s) \in Nat /\ k \in Nat /\ Len(t) = k /\ t[k] = p /\ (s = <<>> <=> Len(s) = 0)
      /\ \A i \in 1 .. Len(s) : t[i] = s[i] /\ s[i] \in Pieces
  BY AtEnd DEF Chained
<1>2. /\ Len(r) \in Nat /\ \A i \in 1 .. Len(r) : r[i] \in Pieces
  BY LenProperties, ElementOfSeq DEF Counted, Chained
<1>3. ASSUME k <= Len(r) PROVE p.to <= r[k].to
  <2>1. k \in 1 .. Len(r) /\ r[k] \in Pieces
    BY <1>1, <1>2, <1>3
  <2>2. CASE k = Len(r)
    BY <2>2 DEF Counted
  <2>3. CASE k < Len(r)
    <3>1. Full(T, e, r[k], b) /\ r[k].from <= r[k].to /\ r[k].to <= e
      BY <2>1, <2>3 DEF Counted, FullBefore, Chained
    <3>2. p.from <= r[k].from
      <4>1. CASE s = <<>>
        BY <2>1, <4>1 DEF Begin, Pieces
      <4>2. CASE s # <<>>
        <5> DEFINE x == s[Len(s)].to
                   y == r[Len(s)].to
        <5>1. Len(s) \in 1 .. Len(s) /\ Len(s) \in 1 .. Len(r) /\ Len(s) <= Len(r)
          BY <1>1, <1>2, <1>3, <4>2
        <5>2. x \in Nat /\ y \in Nat /\ x <= y
          BY <1>1, <1>2, <5>1 DEF Behind, Pieces
        <5>3. p.from = After(T, x) /\ r[k].from = After(T, y)
          BY <2>1, <4>2, <5>1 DEF Begin, Counted, Chained
        <5> HIDE DEF x, y, k
        <5>4. QED
          BY <5>2, <5>3 DEF After
      <4>3. QED
        BY <4>1, <4>2
    <3>3. QED
      BY <2>1, <3>1, <3>2, Dominated
  <2>4. QED
    BY <1>1, <1>2, <1>3, <2>2, <2>3
<1>4. ASSUME NEW i \in 1 .. k, i <= Len(r) PROVE t[i].to <= r[i].to
  <2>1. CASE i = k
    BY <1>1, <1>3, <1>4, <2>1
  <2>2. CASE i \in 1 .. Len(s)
    BY <1>1, <1>4, <2>2 DEF Behind
  <2>3. QED
    BY <1>1, <2>1, <2>2
<1>5. QED
  BY <1>1, <1>4 DEF Behind

-----------------------------------------------------------------------------
(* Steps                                                                   *)

\* A budget never exceeds a packet.
LEMMA Budgets ==
  /\ \A k \in Nat : Digits(k) \in Nat
  /\ \A k, l \in Nat : LabelBytes(k, l) \in Nat
  /\ \A k \in Nat : Budget(k) \in Nat /\ Budget(k) <= packet_bytes
<1>1. ASSUME NEW k \in Nat PROVE Digits(k) \in Nat
  <2> DEFINE D == {power \in {10, 100, 1000, 10000} : power <= k}
  <2>1. PICK m \in Nat : m = 10000
    OBVIOUS
  <2>2. IsFiniteSet(1 .. m)
    <3>1. 1 \in Int /\ m \in Int
      OBVIOUS
    <3>2. QED
      BY <3>1, FS_Interval, Zenon
  <2>3. D \in SUBSET (1 .. m)
    BY <2>1
  <2> HIDE DEF D
  <2>4. IsFiniteSet(D)
    BY <2>2, <2>3, FS_Subset
  <2>5. Cardinality(D) \in Nat
    BY <2>4, FS_CardinalityType
  <2>6. QED
    BY <2>5 DEF Digits, D
<1>2. \A k, l \in Nat : LabelBytes(k, l) \in Nat
  BY <1>1 DEF LabelBytes
<1>3. ASSUME NEW k \in Nat PROVE Budget(k) \in Nat /\ Budget(k) <= packet_bytes
  <2>1. LabelBytes(k, k) \in Nat
    BY <1>2
  <2>2. QED
    BY <2>1, BudgetAssumption DEF Budget
<1>4. QED
  BY <1>1, <1>2, <1>3

\* What a pass has not begun to cut.
LEMMA NothingYet ==
  ASSUME NEW T, NEW e \in Nat, NEW b \in Nat
  PROVE  /\ Chained(T, e, <<>>) /\ AllGood(T, e, <<>>, b)
         /\ FullBefore(T, e, <<>>, b, Len(<<>>) + 1)
         /\ LongBefore(T, e, 0, b) /\ NextLine(T, e, <<>>, 0)
         /\ \A r : Behind(<<>>, r)
<1>1. <<>> \in Seq(Pieces) /\ Len(<<>>) = 0
  BY EmptySeq
<1>2. QED
  BY <1>1 DEF Chained, AllGood, FullBefore, LongBefore, NextLine, Behind

\* What is collected, if anything.
LEMMA Current ==
  ASSUME Split, pc \in {"line", "wrap"}
  PROVE  \/ /\ cur = <<>> /\ packets \o cur = packets /\ cur_size = 0
            /\ LongBefore(text, end, pos, budget)
         \/ \E p \in Pieces :
              /\ cur = <<p>> /\ cur # <<>> /\ cur[1] = p /\ pc = "line"
              /\ packets \o cur = Append(packets, p)
              /\ Collected(text, end, packets, p, pos, cur_size, budget)
<1>1. /\ packets \in Seq(Pieces)
      /\ cur = <<>> \/ \E p \in Pieces : cur = <<p>>
  BY DEF Split, Types
<1>2. CASE cur = <<>>
  BY <1>1, <1>2, ConcatEmptySeq DEF Split, Passing
<1>3. ASSUME NEW p \in Pieces, cur = <<p>>
      PROVE  /\ cur # <<>> /\ cur[1] = p /\ pc = "line"
             /\ packets \o cur = Append(packets, p)
             /\ Collected(text, end, packets, p, pos, cur_size, budget)
  <2>1. cur # <<>> /\ cur[1] = p
    BY <1>3
  <2>2. packets \o cur = Append(packets, p)
    BY <1>1, <1>3, AtEnd
  <2>3. QED
    BY <2>1, <2>2 DEF Split, Passing
<1>4. QED
  BY <1>1, <1>2, <1>3

\* What is known while a pass is at work, for reference.
LEMMA Known ==
  ASSUME Split, pc \in {"line", "wrap"}
  PROVE  /\ IsText(text) /\ end \in 0 .. text.length /\ end \in Nat /\ pos \in Nat
         /\ budget \in Nat /\ budget <= packet_bytes /\ packet_bytes \in Nat
         /\ budget = IF n = 0 THEN packet_bytes ELSE Budget(n)
         /\ n \in Nat /\ packets \in Seq(Pieces) /\ raw \in Seq(Pieces)
         /\ Chained(text, end, packets) /\ AllGood(text, end, packets, budget)
         /\ FullBefore(text, end, packets, budget, Len(packets) + 1)
         /\ n # 0 => /\ n = Len(raw) /\ Counted(text, end, raw, packet_bytes)
                     /\ Behind(packets, raw)
<1>1. text.length \in Nat
  BY TextFacts DEF Split, Types
<1>2. budget <= packet_bytes /\ packet_bytes \in Nat
  BY Budgets, BudgetAssumption DEF Split, Types
<1>3. QED
  BY <1>1, <1>2 DEF Split, Types, Passing

\* What is known of the sizes of the reply.
LEMMA Sizes ==
  ASSUME Split, pc \in {"line", "wrap"}
  PROVE  /\ text.length \in Nat /\ end \in Nat /\ end <= text.length
         /\ \A c \in text.newlines : c \in Nat /\ 0 < c /\ c <= text.length
         /\ \A i \in 0 .. text.length : text.bytes[i] \in Nat
         /\ \A i, j \in 0 .. text.length : i <= j => text.bytes[i] <= text.bytes[j]
         /\ \A i \in 0 .. text.length :
              i + 1 \in text.newlines => text.bytes[i + 1] = text.bytes[i] + 1
<1>1. IsText(text) /\ end \in 0 .. text.length
  BY Known
<1>2. QED
  BY <1>1, TextFacts

\* One more piece in this pass, and the second stays behind the first.
LEMMA CutOff ==
  ASSUME Split, pc \in {"line", "wrap"}, NEW p \in Pieces, Good(text, end, p, budget),
         Begin(text, packets, p.from), p.from <= p.to, p.to <= end,
         packets # <<>> => packets[Len(packets)].to < p.to
  PROVE  LET s == Append(packets, p)
         IN  /\ s \in Seq(Pieces) /\ s # <<>> /\ s[Len(s)] = p
             /\ Chained(text, end, s) /\ AllGood(text, end, s, budget)
             /\ FullBefore(text, end, s, budget, Len(s))
             /\ Full(text, end, p, budget) =>
                  FullBefore(text, end, s, budget, Len(s) + 1)
             /\ n # 0 => Behind(s, raw)
<1>1. n # 0 => Behind(Append(packets, p), raw)
  <2> SUFFICES ASSUME n # 0 PROVE Behind(Append(packets, p), raw)
    OBVIOUS
  <2>1. /\ IsText(text) /\ end \in 0 .. text.length /\ packet_bytes \in Nat
        /\ budget \in Nat /\ budget <= packet_bytes
        /\ Counted(text, end, raw, packet_bytes) /\ Chained(text, end, packets)
        /\ Behind(packets, raw)
    BY Known
  <2>2. QED
    BY <2>1, StaysBehind
<1>2. /\ end \in Nat /\ budget \in Nat /\ packets \in Seq(Pieces)
      /\ Chained(text, end, packets) /\ AllGood(text, end, packets, budget)
      /\ FullBefore(text, end, packets, budget, Len(packets) + 1)
  BY Known
<1> DEFINE s == Append(packets, p)
<1>3. s \in Seq(Pieces) /\ s # <<>>
  BY <1>2, AtEnd
<1>4. /\ Chained(text, end, s) /\ s[Len(s)] = p
      /\ AllGood(text, end, s, budget) /\ FullBefore(text, end, s, budget, Len(s))
      /\ Full(text, end, p, budget) => FullBefore(text, end, s, budget, Len(s) + 1)
  BY <1>2, AppendPiece
<1>5. QED
  BY <1>1, <1>3, <1>4

\* The line the loop of _pack_lines takes next begins where the one before it ended.
LEMMA LineHere ==
  ASSUME Split, pc = "line", NEW to, to \in pos .. end, LineEnds(pos, to)
  PROVE  /\ Line(text, end, pos, to) /\ to \in 0 .. text.length /\ pos \in 0 .. text.length
         /\ to + 1 = end + 1 \/ to + 1 \in text.newlines
         /\ packets = <<>> /\ cur = <<>> => pos = 0
         /\ packets # <<>> \/ cur # <<>> => pos \in text.newlines
         /\ cur = <<>> /\ packets # <<>> => packets[Len(packets)].to + 1 = pos
<1>1. /\ IsText(text) /\ end \in 0 .. text.length /\ end \in Nat /\ pos \in Nat
      /\ text.length \in Nat /\ to \in Nat /\ pos <= to /\ to <= end
  BY Known, TextFacts
<1>2. CASE cur = <<>>
  <2>1. NextLine(text, end, packets, pos)
    BY <1>2 DEF Split, Passing
  <2>2. Start(text, pos)
    BY <1>1, <2>1 DEF NextLine, Start
  <2>3. QED
    BY <1>1, <1>2, <2>1, <2>2 DEF NextLine, LineEnds, Line, End, Inside
<1>3. ASSUME NEW p \in Pieces, cur = <<p>>, cur # <<>>,
             Collected(text, end, packets, p, pos, cur_size, budget)
      PROVE  pos \in text.newlines /\ Line(text, end, pos, to)
  <2>1. pos \in text.newlines
    BY <1>1, <1>3 DEF Collected
  <2>2. QED
    BY <1>1, <2>1 DEF LineEnds, Line, Start, End, Inside
<1>4. CASE cur # <<>>
  <2>1. pos \in text.newlines /\ Line(text, end, pos, to)
    BY <1>3, <1>4, Current
  <2>2. QED
    BY <1>1, <1>4, <2>1 DEF LineEnds
<1>5. QED
  BY <1>2, <1>4

\* A packet ends since the next line, with its newline, would not have fitted.
LEMMA BeginPacketStep ==
  ASSUME Split, NEW to \in pos .. end, BeginPacket(to)
  PROVE  Split'
<1> DEFINE q == Piece(pos, to)
<1>1. /\ pc = "line" /\ LineEnds(pos, to) /\ cur # <<>>
      /\ cur_size + (Bytes(pos, to) + 1) > budget
      /\ packets' = packets \o cur /\ cur' = <<q>> /\ cur_size' = Size(text, pos, to)
      /\ pos' = to + 1 /\ pc' = pc /\ text' = text /\ end' = end /\ n' = n /\ raw' = raw
      /\ budget' = budget
  BY DEF BeginPacket, Overflows, LineBytes, Bytes, Size
<1>2. /\ Line(text, end, pos, to) /\ to \in 0 .. text.length /\ pos \in text.newlines
      /\ to + 1 = end + 1 \/ to + 1 \in text.newlines
      /\ text.length \in Nat /\ pos \in 0 .. text.length /\ pos <= to /\ to <= end
      /\ budget \in Nat /\ end \in Nat /\ end <= text.length
  <2>1. budget \in Nat /\ end \in Nat /\ pos \in Nat
    BY <1>1, Known
  <2>2. text.length \in Nat /\ end <= text.length
    BY <1>1, Sizes
  <2>3. pos <= to /\ to <= end
    BY <2>1
  <2>4. QED
    BY <1>1, <2>1, <2>2, <2>3, LineHere
<1>3. PICK p \in Pieces : /\ cur = <<p>> /\ packets \o cur = Append(packets, p)
                          /\ Collected(text, end, packets, p, pos, cur_size, budget)
  BY <1>1, Current
<1>4. /\ p.from \in 0 .. text.length /\ p.to \in 0 .. text.length /\ p.to + 1 = pos
      /\ p.to <= end /\ p.from <= p.to /\ cur_size = Size(text, p.from, p.to)
      /\ Begin(text, packets, p.from) /\ Good(text, end, p, budget)
      /\ packets # <<>> => packets[Len(packets)].to < p.to
      /\ ShortBefore(text, end, pos, budget)
  <2>1. p.from \in Nat /\ p.to \in Nat
    BY DEF Pieces
  <2>2. p.from <= p.to /\ p.to + 1 = pos /\ pos <= end + 1
    BY <1>3 DEF Collected
  <2>3. p.from \in 0 .. text.length /\ p.to \in 0 .. text.length /\ p.to <= end
    BY <1>2, <2>1, <2>2
  <2>4. QED
    BY <1>3, <2>2, <2>3 DEF Collected
<1>5. Full(text, end, p, budget)
  <2>1. text.bytes[pos] = text.bytes[p.to] + 1
    BY <1>1, <1>2, <1>4, Sizes
  <2>2. /\ text.bytes[pos] \in Nat /\ text.bytes[p.to] \in Nat /\ text.bytes[to] \in Nat
        /\ text.bytes[p.from] \in Nat /\ budget \in Nat
    BY <1>1, <1>2, <1>4, Sizes
  <2>3. Size(text, p.from, to) > budget
    <3>1. /\ cur_size = text.bytes[p.to] - text.bytes[p.from]
          /\ cur_size + (text.bytes[to] - text.bytes[pos] + 1) > budget
      BY <1>1, <1>4 DEF Size, Bytes
    <3>2. text.bytes[to] - text.bytes[p.from] > budget
      BY <2>1, <2>2, <3>1
    <3>3. QED
      BY <3>2 DEF Size
  <2>4. QED
    BY <1>2, <1>4, <2>3 DEF Full
<1> DEFINE s == Append(packets, p)
<1>6. /\ s \in Seq(Pieces) /\ s # <<>> /\ s[Len(s)] = p
      /\ Chained(text, end, s) /\ AllGood(text, end, s, budget)
      /\ FullBefore(text, end, s, budget, Len(s) + 1)
      /\ n # 0 => Behind(s, raw)
  BY <1>1, <1>4, <1>5, CutOff
<1> HIDE DEF s
<1>7. q \in Pieces /\ q.from = pos /\ q.to = to
  BY <1>2, Known, <1>1 DEF Piece, Pieces
<1>8. Collected(text, end, s, q, to + 1, Size(text, pos, to), budget)
  <2>1. ShortBefore(text, end, to + 1, budget)
    BY <1>2, <1>4 DEF ShortBefore
  <2>2. Good(text, end, q, budget)
    BY <1>2, <1>4, <1>7 DEF Good
  <2>3. Begin(text, s, pos) /\ Start(text, pos)
    BY <1>2, <1>4, <1>6 DEF Begin, After, Start
  <2>4. pos <= to /\ p.to < to /\ to + 1 <= end + 1
    BY <1>2, <1>4
  <2>5. QED
    BY <1>2, <1>6, <1>7, <2>1, <2>2, <2>3, <2>4 DEF Collected
<1> HIDE DEF q
<1>9. packets' = s /\ cur'[1] = q /\ cur' # <<>> /\ pc' = "line"
  BY <1>1, <1>3 DEF s
<1>10. Types'
  BY <1>1, <1>2, <1>6, <1>7, <1>9 DEF Split, Types
<1>11. Passing'
  BY <1>1, <1>6, <1>8, <1>9, Known DEF Passing
<1>12. QED
  BY <1>9, <1>10, <1>11 DEF Split, Begun, Finished

\* A line that fits is collected, so what is collected fits.
LEMMA JoinStep ==
  ASSUME Split, NEW to \in pos .. end, Join(to)
  PROVE  Split'
<1>1. /\ pc = "line" /\ LineEnds(pos, to) /\ ~Overflows(to) /\ ~TooLong(to)
      /\ cur_size' = cur_size + LineBytes(to)
      /\ cur' = <<Piece(IF cur = <<>> THEN pos ELSE cur[1].from, to)>>
      /\ pos' = to + 1 /\ pc' = pc /\ text' = text /\ end' = end /\ n' = n /\ raw' = raw
      /\ budget' = budget /\ packets' = packets
  BY DEF Join
<1>2. /\ pos \in Nat /\ end \in Nat /\ budget \in Nat /\ text.length \in Nat
      /\ end <= text.length /\ pos <= to /\ to <= end
  <2>1. budget \in Nat /\ end \in Nat /\ pos \in Nat
    BY <1>1, Known
  <2>2. QED
    BY <1>1, <2>1, Sizes
<1>3. /\ Line(text, end, pos, to) /\ to \in 0 .. text.length /\ pos \in 0 .. text.length
      /\ to + 1 = end + 1 \/ to + 1 \in text.newlines
      /\ packets = <<>> /\ cur = <<>> => pos = 0
      /\ packets # <<>> \/ cur # <<>> => pos \in text.newlines
      /\ cur = <<>> /\ packets # <<>> => packets[Len(packets)].to + 1 = pos
  BY <1>1, LineHere
<1>4. text.bytes[pos] \in Nat /\ text.bytes[to] \in Nat /\ Start(text, pos)
  BY <1>1, <1>3, Sizes DEF Line
<1>5. PICK q \in Pieces :
        /\ cur' = <<q>> /\ q.to = to /\ q.from <= to
        /\ Begin(text, packets, q.from) /\ Start(text, q.from)
        /\ packets # <<>> => packets[Len(packets)].to < to
        /\ cur_size' = Size(text, q.from, to)
        /\ Size(text, q.from, to) <= budget
        /\ ShortBefore(text, end, to + 1, budget)
  <2>1. CASE cur = <<>>
    <3> DEFINE q == Piece(pos, to)
    <3>1. q \in Pieces /\ q.from = pos /\ q.to = to /\ cur' = <<q>>
      BY <1>1, <1>2, <2>1 DEF Piece, Pieces
    <3>2. cur_size = 0
      BY <1>1, <2>1, Current
    <3>3. LineBytes(to) = Size(text, pos, to) /\ Size(text, pos, to) \in Int
      BY <1>4, <2>1 DEF LineBytes, Bytes, Size
    <3>4. Size(text, pos, to) <= budget
      BY <1>1, <1>2, <3>3 DEF TooLong, Bytes, Size
    <3>5. packets # <<>> => packets[Len(packets)].to < to
      <4>1. CASE packets = <<>>
        BY <4>1
      <4>2. CASE packets # <<>>
        <5>1. packets \in Seq(Pieces)
          BY <1>1, Known
        <5>2. packets[Len(packets)].to \in Nat
          BY <4>2, <5>1, LastPiece
        <5>3. QED
          BY <1>2, <1>3, <2>1, <4>2, <5>2 DEF Begin, After
      <4>3. QED
        BY <4>1, <4>2
    <3>6. ShortBefore(text, end, to + 1, budget)
      BY <1>2, <1>3, <3>4 DEF ShortBefore
    <3>7. Begin(text, packets, pos)
      <4>1. CASE packets = <<>>
        BY <1>3, <2>1, <4>1 DEF Begin
      <4>2. CASE packets # <<>>
        BY <1>3, <2>1, <4>2 DEF Begin, After
      <4>3. QED
        BY <4>1, <4>2
    <3>8. cur_size' = Size(text, pos, to)
      BY <1>1, <3>2, <3>3
    <3>9. QED
      BY <1>2, <1>4, <3>1, <3>4, <3>5, <3>6, <3>7, <3>8
  <2>2. CASE cur # <<>>
    <3>1. PICK p \in Pieces : /\ cur[1] = p
                              /\ Collected(text, end, packets, p, pos, cur_size, budget)
      BY <1>1, <2>2, Current
    <3> DEFINE q == Piece(p.from, to)
    <3>2. /\ p.from <= p.to /\ p.to + 1 = pos /\ Begin(text, packets, p.from)
          /\ Start(text, p.from) /\ cur_size = Size(text, p.from, p.to)
          /\ packets # <<>> => packets[Len(packets)].to < p.to
          /\ ShortBefore(text, end, pos, budget)
      BY <3>1 DEF Collected
    <3>3. p.from \in 0 .. text.length /\ p.to \in 0 .. text.length
      BY <1>2, <3>2 DEF Pieces
    <3>4. q \in Pieces /\ q.from = p.from /\ q.to = to /\ cur' = <<q>>
      BY <1>1, <1>2, <2>2, <3>1 DEF Piece, Pieces
    <3>5. text.bytes[pos] = text.bytes[p.to] + 1
      BY <1>1, <1>3, <2>2, <3>2, <3>3, Sizes
    <3>6. text.bytes[p.from] \in Nat /\ text.bytes[p.to] \in Nat
      BY <1>1, <3>3, Sizes
    <3>7. /\ cur_size = text.bytes[p.to] - text.bytes[p.from]
          /\ LineBytes(to) = text.bytes[to] - text.bytes[pos] + 1
          /\ cur_size + LineBytes(to) <= budget
      <4>1. cur_size = text.bytes[p.to] - text.bytes[p.from]
        BY <3>2 DEF Size
      <4>2. LineBytes(to) = text.bytes[to] - text.bytes[pos] + 1
        BY <2>2 DEF LineBytes, Bytes
      <4>3. cur_size \in Int /\ LineBytes(to) \in Int
        BY <1>4, <3>6, <4>1, <4>2
      <4>4. ~(cur_size + LineBytes(to) > budget)
        BY <1>1, <2>2 DEF Overflows
      <4>5. QED
        BY <1>2, <4>1, <4>2, <4>3, <4>4
    <3>8. /\ cur_size' = Size(text, p.from, to)
          /\ Size(text, p.from, to) <= budget
      <4>1. cur_size + LineBytes(to) = text.bytes[to] - text.bytes[p.from]
        BY <1>4, <3>5, <3>6, <3>7
      <4>2. QED
        BY <1>1, <3>7, <4>1 DEF Size
    <3>9. ShortBefore(text, end, to + 1, budget)
      BY <1>2, <3>2 DEF ShortBefore
    <3>10. p.from <= to /\ (packets # <<>> => packets[Len(packets)].to < to)
      <4>1. CASE packets = <<>>
        BY <1>2, <3>2, <3>3, <4>1
      <4>2. CASE packets # <<>>
        <5>1. packets \in Seq(Pieces)
          BY <1>1, Known
        <5>2. packets[Len(packets)].to \in Nat
          BY <4>2, <5>1, LastPiece
        <5>3. QED
          BY <1>2, <3>2, <3>3, <5>2
      <4>3. QED
        BY <4>1, <4>2
    <3>11. QED
      BY <3>2, <3>4, <3>8, <3>9, <3>10
  <2>3. QED
    BY <2>1, <2>2
<1>6. Good(text, end, q, budget)
  <2>1. End(text, end, to)
    BY <1>3 DEF Line
  <2>2. QED
    BY <1>5, <2>1 DEF Good
<1>7. Collected(text, end, packets, q, to + 1, cur_size', budget)
  BY <1>2, <1>3, <1>5, <1>6 DEF Collected
<1>8. cur'[1] = q /\ cur' # <<>> /\ pc' = "line"
  BY <1>1, <1>5
<1>9. Types'
  BY <1>1, <1>2, <1>5 DEF Split, Types
<1>10. Passing'
  BY <1>1, <1>7, <1>8, Known DEF Passing
<1>11. QED
  BY <1>8, <1>9, <1>10 DEF Split, Begun, Finished

\* A line is cut only when nothing is collected.
LEMMA BeginWrapStep ==
  ASSUME Split, NEW to \in pos .. end, BeginWrap(to)
  PROVE  Split'
<1>1. /\ pc = "line" /\ LineEnds(pos, to) /\ ~Overflows(to) /\ TooLong(to)
      /\ packets' = packets \o cur /\ cur' = <<>> /\ cur_size' = 0 /\ pc' = "wrap"
      /\ pos' = pos /\ text' = text /\ end' = end /\ n' = n /\ raw' = raw
      /\ budget' = budget
  BY DEF BeginWrap
<1>2. /\ pos \in Nat /\ end \in Nat /\ budget \in Nat /\ text.length \in Nat
      /\ end <= text.length /\ pos <= to /\ to <= end
  <2>1. budget \in Nat /\ end \in Nat /\ pos \in Nat
    BY <1>1, Known
  <2>2. QED
    BY <1>1, <2>1, Sizes
<1>3. /\ Line(text, end, pos, to) /\ to \in 0 .. text.length /\ pos \in 0 .. text.length
      /\ packets = <<>> /\ cur = <<>> => pos = 0
      /\ packets # <<>> \/ cur # <<>> => pos \in text.newlines
      /\ cur = <<>> /\ packets # <<>> => packets[Len(packets)].to + 1 = pos
  BY <1>1, LineHere
<1>4. text.bytes[pos] \in Nat /\ text.bytes[to] \in Nat
  BY <1>1, <1>3, Sizes
<1>5. Size(text, pos, to) > budget
  BY <1>1 DEF TooLong, Bytes, Size
<1>6. cur = <<>>
  <2>1. SUFFICES ASSUME cur # <<>> PROVE FALSE
    OBVIOUS
  <2>2. PICK p \in Pieces : Collected(text, end, packets, p, pos, cur_size, budget)
    BY <1>1, <2>1, Current
  <2>3. p.from <= p.to /\ p.to + 1 = pos /\ cur_size = text.bytes[p.to] - text.bytes[p.from]
    BY <2>2 DEF Collected, Size
  <2>4. p.from \in 0 .. text.length /\ p.to \in 0 .. text.length
    BY <1>2, <2>3 DEF Pieces
  <2>5. /\ text.bytes[p.from] \in Nat /\ text.bytes[p.to] \in Nat
        /\ text.bytes[p.from] <= text.bytes[p.to]
    BY <1>1, <2>3, <2>4, Sizes
  <2>6. ~(cur_size + (text.bytes[to] - text.bytes[pos] + 1) > budget)
    BY <1>1, <2>1 DEF Overflows, LineBytes, Bytes
  <2>7. text.bytes[to] - text.bytes[pos] > budget
    BY <1>5 DEF Size
  <2>8. QED
    BY <1>2, <1>4, <2>3, <2>5, <2>6, <2>7
<1>7. packets' = packets /\ LongBefore(text, end, pos, budget)
  BY <1>1, <1>6, Current
<1>8. pos < to
  BY <1>2, <1>4, <1>5 DEF Size
<1>9. Wrapping(text, end, packets, pos, budget)
  <2>1. CASE packets = <<>>
    BY <1>2, <1>3, <1>5, <1>6, <1>8, <2>1 DEF Wrapping, Begin
  <2>2. CASE packets # <<>>
    <3>1. packets \in Seq(Pieces)
      BY <1>1, Known
    <3>2. packets[Len(packets)].to \in Nat
      BY <2>2, <3>1, LastPiece
    <3>3. Begin(text, packets, pos) /\ packets[Len(packets)].to <= pos
      BY <1>2, <1>3, <1>6, <2>2, <3>2 DEF Begin, After
    <3>4. QED
      BY <1>2, <1>3, <1>5, <1>8, <3>3 DEF Wrapping
  <2>3. QED
    BY <2>1, <2>2
<1>10. Types'
  BY <1>1, <1>2, <1>7 DEF Split, Types
<1>11. Passing'
  BY <1>1, <1>7, <1>9, Known DEF Passing
<1>12. QED
  BY <1>1, <1>10, <1>11 DEF Split, Begun, Finished

\* What is known where a line is being cut.
LEMMA WrapHere ==
  ASSUME Split, pc = "wrap"
  PROVE  /\ cur = <<>> /\ cur_size = 0 /\ LongBefore(text, end, pos, budget)
         /\ Begin(text, packets, pos)
         /\ packets # <<>> => packets[Len(packets)].to <= pos
         /\ \E f, t \in Nat : /\ Line(text, end, f, t) /\ f <= pos /\ pos < t
                              /\ Size(text, f, t) > budget
  BY DEF Split, Passing, Wrapping

\* A line that ends where or after a chunk begins, and before or where it ends, is the
\* one that is cut.
LEMMA LongUpTo ==
  ASSUME NEW T, IsText(T), NEW e \in Nat, NEW b \in Nat, NEW place \in Nat, NEW f \in Nat,
         NEW t \in Nat, Line(T, e, f, t), Size(T, f, t) > b, f <= place, NEW to \in Nat,
         LongBefore(T, e, place, b), to <= t + 1
  PROVE  LongBefore(T, e, to, b)
<1> SUFFICES ASSUME NEW g \in Nat, NEW u \in Nat, Line(T, e, g, u), u < to
             PROVE  Size(T, g, u) > b
  BY DEF LongBefore
<1>1. CASE u < place
  BY <1>1 DEF LongBefore
<1>2. CASE place <= u
  <2>1. g <= t /\ f <= u
    BY <1>2 DEF Line
  <2>2. f = g /\ t = u
    BY <2>1, OneLine
  <2>3. QED
    BY <2>2
<1>3. QED
  BY <1>1, <1>2

\* A chunk ends since the next character would not have fitted.
LEMMA ChunkStep ==
  ASSUME Split, NEW to \in pos .. end, Chunk(to)
  PROVE  Split'
<1> DEFINE q == Piece(pos, to)
           s == Append(packets, q)
<1>1. /\ pc = "wrap" /\ to \in pos + 1 .. end - 1
      /\ Bytes(pos, to) <= budget /\ Bytes(pos, to + 1) > budget
      /\ \A c \in pos + 1 .. to + 1 : c \notin text.newlines
      /\ packets' = s /\ pos' = to
      /\ pc' = pc /\ text' = text /\ end' = end /\ n' = n /\ raw' = raw
      /\ budget' = budget /\ cur' = cur /\ cur_size' = cur_size
  BY DEF Chunk, AfterChunk
<1>2. /\ pos \in Nat /\ end \in Nat /\ budget \in Nat /\ text.length \in Nat
      /\ end <= text.length /\ to \in Nat /\ pos < to /\ to + 1 <= end /\ IsText(text)
  <2>1. budget \in Nat /\ end \in Nat /\ pos \in Nat /\ IsText(text)
    BY <1>1, Known
  <2>2. QED
    BY <1>1, <2>1, Sizes
<1>3. /\ cur = <<>> /\ cur_size = 0 /\ LongBefore(text, end, pos, budget)
      /\ Begin(text, packets, pos)
      /\ packets # <<>> => packets[Len(packets)].to <= pos
  BY <1>1, WrapHere
<1>4. PICK f \in Nat, t \in Nat :
        Line(text, end, f, t) /\ f <= pos /\ pos < t /\ Size(text, f, t) > budget
  BY <1>1, WrapHere
<1>5. to + 1 <= t
  <2>1. SUFFICES ASSUME t < to + 1 PROVE FALSE
    BY <1>2
  <2>2. t + 1 \in text.newlines
    BY <1>2, <1>4, <2>1 DEF Line, End
  <2>3. QED
    BY <1>1, <1>2, <1>4, <2>1, <2>2
<1>6. q \in Pieces /\ q.from = pos /\ q.to = to
  BY <1>2 DEF Piece, Pieces
<1> HIDE DEF q
<1>7. ChunkOf(text, end, q, budget, f, t)
  BY <1>1, <1>2, <1>4, <1>5, <1>6 DEF ChunkOf, Bytes, Size
<1>8. Good(text, end, q, budget) /\ Full(text, end, q, budget)
  BY <1>1, <1>3, <1>6, <1>7 DEF Good, Full, Bytes, Size
<1>9. packets # <<>> => packets[Len(packets)].to < to
  <2>1. CASE packets # <<>>
    <3>1. packets[Len(packets)].to \in Nat
      BY <1>1, <2>1, Known, LastPiece
    <3>2. QED
      BY <1>2, <1>3, <2>1, <3>1
  <2>2. QED
    BY <2>1
<1>10. /\ s \in Seq(Pieces) /\ s # <<>> /\ s[Len(s)] = q
       /\ Chained(text, end, s) /\ AllGood(text, end, s, budget)
       /\ FullBefore(text, end, s, budget, Len(s) + 1)
       /\ n # 0 => Behind(s, raw)
  BY <1>1, <1>2, <1>3, <1>6, <1>8, <1>9, CutOff
<1> HIDE DEF s
<1>11. Wrapping(text, end, s, to, budget)
  <2>1. to + 1 \notin text.newlines
    BY <1>1, <1>2
  <2>2. Begin(text, s, to)
    BY <1>6, <1>10, <2>1 DEF Begin, After
  <2>3. f <= to /\ to < t
    BY <1>2, <1>4, <1>5
  <2>4. QED
    BY <1>2, <1>4, <1>6, <1>10, <2>2, <2>3 DEF Wrapping
<1>12. LongBefore(text, end, to, budget)
  BY <1>2, <1>3, <1>4, <1>5, LongUpTo
<1>13. Types'
  BY <1>1, <1>2, <1>3, <1>10 DEF Split, Types
<1>14. Passing'
  BY <1>1, <1>3, <1>10, <1>11, <1>12, Known DEF Passing
<1>15. QED
  BY <1>1, <1>13, <1>14 DEF Split, Begun, Finished

\* The last chunk of a line ends with it.
LEMMA LastChunkStep ==
  ASSUME Split, NEW to \in pos .. end, LastChunk(to)
  PROVE  Split'
<1> DEFINE q == Piece(pos, to)
           s == Append(packets, q)
<1>1. /\ pc = "wrap" /\ LineEnds(pos, to) /\ Bytes(pos, to) <= budget
      /\ packets' = s /\ pos' = to + 1 /\ pc' = "line"
      /\ text' = text /\ end' = end /\ n' = n /\ raw' = raw
      /\ budget' = budget /\ cur' = cur /\ cur_size' = cur_size
  BY DEF LastChunk
<1>2. /\ pos \in Nat /\ end \in Nat /\ budget \in Nat /\ text.length \in Nat
      /\ end <= text.length /\ to \in Nat /\ pos <= to /\ to <= end /\ IsText(text)
  <2>1. budget \in Nat /\ end \in Nat /\ pos \in Nat /\ IsText(text)
    BY <1>1, Known
  <2>2. QED
    BY <1>1, <2>1, Sizes
<1>3. /\ cur = <<>> /\ cur_size = 0 /\ LongBefore(text, end, pos, budget)
      /\ Begin(text, packets, pos)
      /\ packets # <<>> => packets[Len(packets)].to <= pos
  BY <1>1, WrapHere
<1>4. PICK f \in Nat, t \in Nat :
        Line(text, end, f, t) /\ f <= pos /\ pos < t /\ Size(text, f, t) > budget
  BY <1>1, WrapHere
<1>5. to = t
  <2>1. /\ t = end \/ t + 1 \in text.newlines
        /\ \A c \in Nat : f < c /\ c <= t => c \notin text.newlines
        /\ to = end \/ to + 1 \in text.newlines
        /\ \A c \in pos + 1 .. to : c \notin text.newlines
        /\ t <= end
    BY <1>1, <1>4 DEF Line, End, Inside, LineEnds
  <2>2. ~(to < t)
    BY <1>2, <1>4, <2>1
  <2>3. ~(t < to)
    BY <1>2, <1>4, <2>1
  <2>4. QED
    BY <1>2, <2>2, <2>3
<1>6. q \in Pieces /\ q.from = pos /\ q.to = to
  BY <1>2 DEF Piece, Pieces
<1> HIDE DEF q
<1>7. ChunkOf(text, end, q, budget, f, t)
  BY <1>1, <1>2, <1>4, <1>5, <1>6 DEF ChunkOf, Bytes, Size
<1>8. Good(text, end, q, budget) /\ Full(text, end, q, budget)
  BY <1>3, <1>5, <1>6, <1>7 DEF Good, Full
<1>9. packets # <<>> => packets[Len(packets)].to < to
  <2>1. CASE packets # <<>>
    <3>1. packets[Len(packets)].to \in Nat
      BY <1>1, <2>1, Known, LastPiece
    <3>2. QED
      BY <1>2, <1>3, <1>4, <1>5, <2>1, <3>1
  <2>2. QED
    BY <2>1
<1>10. /\ s \in Seq(Pieces) /\ s # <<>> /\ s[Len(s)] = q
       /\ Chained(text, end, s) /\ AllGood(text, end, s, budget)
       /\ FullBefore(text, end, s, budget, Len(s) + 1)
       /\ n # 0 => Behind(s, raw)
  BY <1>1, <1>2, <1>3, <1>6, <1>8, <1>9, CutOff
<1> HIDE DEF s
<1>11. NextLine(text, end, s, to + 1)
  <2>1. to = end \/ (to + 1 <= end /\ to + 1 \in text.newlines)
    BY <1>1, <1>2 DEF LineEnds
  <2>2. QED
    BY <1>6, <1>10, <2>1 DEF NextLine
<1>12. LongBefore(text, end, to + 1, budget)
  BY <1>2, <1>3, <1>4, <1>5, LongUpTo
<1>13. Types'
  BY <1>1, <1>2, <1>3, <1>10 DEF Split, Types
<1>14. Passing'
  BY <1>1, <1>3, <1>10, <1>11, <1>12, Known DEF Passing
<1>15. QED
  BY <1>1, <1>13, <1>14 DEF Split, Begun, Finished

\* What a pass has cut when it has gone through all lines.
LEMMA AllCut ==
  ASSUME Split, pc = "line", pos > end
  PROVE  LET all == packets \o cur
         IN  /\ all \in Seq(Pieces) /\ all # <<>> /\ Len(all) \in Nat \ {0}
             /\ all[Len(all)].to = end
             /\ Chained(text, end, all) /\ AllGood(text, end, all, budget)
             /\ FullBefore(text, end, all, budget, Len(all))
             /\ n # 0 => Behind(all, raw)
<1> DEFINE all == packets \o cur
<1>1. /\ end \in Nat /\ pos \in Nat /\ packets \in Seq(Pieces) /\ IsText(text)
      /\ Chained(text, end, packets) /\ AllGood(text, end, packets, budget)
      /\ FullBefore(text, end, packets, budget, Len(packets) + 1)
      /\ n # 0 => Behind(packets, raw)
  BY Known
<1>2. CASE cur = <<>>
  <2>1. all = packets /\ NextLine(text, end, packets, pos)
    BY <1>2, Current DEF Split, Passing
  <2>2. pos = end + 1 /\ packets # <<>> /\ packets[Len(packets)].to + 1 = pos
    BY <1>1, <2>1 DEF NextLine
  <2>3. Len(packets) \in Nat \ {0} /\ packets[Len(packets)].to \in Nat
    BY <1>1, <2>2, LastPiece
  <2>4. FullBefore(text, end, packets, budget, Len(packets))
    BY <1>1, <2>3 DEF FullBefore
  <2>5. packets[Len(packets)].to = end
    BY <1>1, <2>2, <2>3
  <2> HIDE DEF all
  <2>6. QED
    BY <1>1, <2>1, <2>2, <2>3, <2>4, <2>5 DEF all
<1>3. CASE cur # <<>>
  <2>1. PICK p \in Pieces :
          /\ all = Append(packets, p)
          /\ Collected(text, end, packets, p, pos, cur_size, budget)
    BY <1>3, Current
  <2>2. /\ p.from <= p.to /\ p.to + 1 = pos /\ pos <= end + 1
        /\ Begin(text, packets, p.from) /\ Good(text, end, p, budget)
        /\ packets # <<>> => packets[Len(packets)].to < p.to
    BY <2>1 DEF Collected
  <2>3. p.to = end
    BY <1>1, <2>2 DEF Pieces
  <2> HIDE DEF all
  <2>4. /\ all \in Seq(Pieces) /\ all # <<>> /\ all[Len(all)] = p
        /\ Chained(text, end, all) /\ AllGood(text, end, all, budget)
        /\ FullBefore(text, end, all, budget, Len(all))
        /\ n # 0 => Behind(all, raw)
    <3>1. p.to <= end
      BY <1>1, <2>3
    <3>2. QED
      BY <2>1, <2>2, <3>1, CutOff
  <2>5. Len(all) \in Nat \ {0}
    BY <2>4, LastPiece
  <2>6. QED
    BY <2>3, <2>4, <2>5 DEF all
<1>4. QED
  BY <1>2, <1>3

\* The first pass becomes what the second is measured by, unless it is the only one.
LEMMA EndFirstStep ==
  ASSUME Split, EndFirst
  PROVE  Split'
<1> DEFINE all == packets \o cur
<1>1. /\ pc = "line" /\ pos > end /\ n = 0
      /\ cur' = <<>> /\ cur_size' = 0 /\ text' = text /\ end' = end
  BY DEF EndFirst
<1>2. /\ all \in Seq(Pieces) /\ all # <<>> /\ Len(all) \in Nat \ {0}
      /\ all[Len(all)].to = end /\ Chained(text, end, all)
      /\ AllGood(text, end, all, budget) /\ FullBefore(text, end, all, budget, Len(all))
  BY <1>1, AllCut
<1>3. /\ IsText(text) /\ end \in 0 .. text.length /\ end \in Nat
      /\ budget = packet_bytes /\ packet_bytes \in Nat /\ raw \in Seq(Pieces)
      /\ pos \in Nat
  BY <1>1, Known
<1>4. CASE Len(all) = 1
  <2>1. /\ pc' = "done" /\ packets' = all
        /\ n' = 0 /\ raw' = raw /\ budget' = budget /\ pos' = pos
    BY <1>1, <1>4 DEF EndFirst
  <2> HIDE DEF all
  <2>2. Types'
    BY <1>1, <1>2, <1>3, <2>1 DEF Types
  <2>3. Finished'
    BY <1>1, <1>2, <2>1 DEF Finished
  <2>4. QED
    BY <2>1, <2>2, <2>3 DEF Split, Begun, Passing
<1>5. CASE Len(all) # 1
  <2>1. /\ n' = Len(all) /\ raw' = all /\ budget' = Budget(Len(all))
        /\ packets' = <<>> /\ pos' = 0 /\ pc' = "line"
    BY <1>1, <1>5 DEF EndFirst
  <2> HIDE DEF all
  <2>2. Budget(Len(all)) \in Nat
    BY <1>2, Budgets
  <2>3. <<>> \in Seq(Pieces)
    BY EmptySeq
  <2>4. (Budget(n))' = Budget(n')
    BY DEF Budget, LabelBytes, Digits
  <2>5. Types'
    BY <1>1, <1>2, <1>3, <2>1, <2>2, <2>3, <2>4 DEF Types
  <2>6. Counted(text, end, all, packet_bytes)
    BY <1>2, <1>3 DEF Counted
  <2>7. Passing'
    BY <1>1, <1>3, <2>1, <2>2, <2>6, NothingYet DEF Passing
  <2>8. QED
    BY <2>1, <2>5, <2>7 DEF Split, Begun, Finished
<1>6. QED
  BY <1>4, <1>5

\* The second pass ends with at least as many packets as the first counted.
LEMMA EndSecondStep ==
  ASSUME Split, EndSecond
  PROVE  Split'
<1> DEFINE all == packets \o cur
<1>1. /\ pc = "line" /\ pos > end /\ n # 0 /\ packets' = all
      /\ cur' = <<>> /\ cur_size' = 0 /\ pc' = "done" /\ text' = text /\ end' = end
      /\ n' = n /\ raw' = raw /\ budget' = budget /\ pos' = pos
  BY DEF EndSecond
<1>2. /\ all \in Seq(Pieces) /\ all # <<>> /\ Len(all) \in Nat \ {0}
      /\ all[Len(all)].to = end /\ Chained(text, end, all)
      /\ AllGood(text, end, all, budget) /\ Behind(all, raw)
  BY <1>1, AllCut
<1> HIDE DEF all
<1>3. /\ end \in Nat /\ n = Len(raw) /\ raw \in Seq(Pieces) /\ n \in Nat
      /\ Counted(text, end, raw, packet_bytes)
  BY <1>1, Known
<1>4. n <= Len(all)
  <2> SUFFICES ASSUME Len(all) < n PROVE FALSE
    BY <1>2, <1>3
  <2> DEFINE m == Len(all)
  <2>1. m \in 1 .. Len(raw) /\ m \in 1 .. Len(all) /\ n \in 1 .. Len(raw) /\ m < n
    BY <1>2, <1>3
  <2> HIDE DEF m
  <2>2. all[m].to <= raw[m].to
    BY <1>2, <2>1 DEF Behind
  <2>3. raw[m].to < raw[n].to /\ raw[n].to = end
    BY <1>3, <2>1 DEF Counted, Chained
  <2>4. raw[m] \in Pieces
    BY <1>3, <2>1, ElementOfSeq
  <2>5. raw[m].to \in Nat
    BY <2>4 DEF Pieces
  <2>6. QED
    BY <1>2, <1>3, <2>2, <2>3, <2>5 DEF m
<1>5. Types'
  BY <1>1, <1>2 DEF Split, Types
<1>6. Finished'
  BY <1>1, <1>2, <1>4 DEF Finished
<1>7. QED
  BY <1>1, <1>5, <1>6 DEF Split, Begun, Passing

\* What fits a packet is one, else the first pass begins.
LEMMA MeasureStep ==
  ASSUME Split, Measure
  PROVE  Split'
<1> DEFINE p == Piece(0, end')
<1>1. /\ pc = "measure" /\ end' \in 0 .. text.length
      /\ text' = text /\ n' = n /\ raw' = raw /\ budget' = budget /\ pos' = pos
      /\ cur' = cur /\ cur_size' = cur_size
  BY DEF Measure
<1>2. /\ n = 0 /\ packets = <<>> /\ pos = 0 /\ cur = <<>> /\ cur_size = 0
      /\ budget = packet_bytes /\ IsText(text) /\ text.length \in Nat /\ end' \in Nat
      /\ budget \in Nat
  BY <1>1, TextFacts DEF Split, Types, Begun
<1>3. CASE Bytes(0, end') <= packet_bytes
  <2>1. pc' = "done" /\ packets' = <<p>>
    BY <1>3 DEF Measure
  <2>2. p \in Pieces /\ p.from = 0 /\ p.to = end'
    BY <1>2 DEF Piece, Pieces
  <2> HIDE DEF p
  <2>3. Good(text, end', p, budget)
    BY <1>2, <1>3, <2>2 DEF Good, Start, End, Size, Bytes
  <2>4. Begin(text, <<>>, p.from) /\ p.from <= p.to /\ p.to <= end'
    BY <1>2, <2>2 DEF Begin
  <2> DEFINE s == <<p>>
  <2>5. packets' = s /\ s \in Seq(Pieces) /\ Len(s) = 1
    BY <2>1, <2>2
  <2>6. s # <<>> /\ s[1] = p
    OBVIOUS
  <2> HIDE DEF s
  <2>7. Chained(text, end', s) /\ AllGood(text, end', s, budget)
    BY <1>2, <2>2, <2>3, <2>4, <2>5, <2>6, SinglePiece
  <2>8. Types'
    BY <1>1, <1>2, <2>1, <2>5 DEF Split, Types
  <2>9. Finished'
    BY <1>1, <1>2, <2>1, <2>2, <2>5, <2>6, <2>7 DEF Finished
  <2>10. QED
    BY <2>1, <2>8, <2>9 DEF Split, Begun, Passing
<1>4. CASE ~(Bytes(0, end') <= packet_bytes)
  <2>1. pc' = "line" /\ packets' = packets
    BY <1>4 DEF Measure
  <2>2. Types'
    BY <1>1, <1>2, <2>1 DEF Split, Types
  <2>3. Passing'
    BY <1>1, <1>2, <2>1, NothingYet DEF Passing
  <2>4. QED
    BY <2>1, <2>2, <2>3 DEF Split, Begun, Finished
<1>5. QED
  BY <1>3, <1>4

\* Nothing is left of the reply before.
LEMMA ReplyStep ==
  ASSUME Split, Reply
  PROVE  Split'
<1>1. /\ pc = "idle" /\ pc' = "measure" /\ text' \in Texts
      /\ UNCHANGED <<end, n, raw, budget, pos, packets, cur, cur_size>>
  BY DEF Reply
<1>2. IsText(text')
  BY <1>1, TextAssumption
<1>3. text'.length \in Nat /\ end = 0
  BY <1>1, <1>2 DEF Split, Begun, IsText
<1>4. Types'
  BY <1>1, <1>2, <1>3 DEF Split, Types, IsText
<1>5. QED
  BY <1>1, <1>4 DEF Split, Begun, Passing, Finished

\* A text without characters.
LEMMA Empty == IsText(EmptyText) /\ EmptyText.length = 0
  BY DEF IsText, EmptyText

\* The packets are handed over, and nothing is kept.
LEMMA ReturnStep ==
  ASSUME Split, Return
  PROVE  Split'
<1>1. /\ pc = "done" /\ pc' = "idle" /\ text' = EmptyText /\ end' = 0 /\ n' = 0
      /\ raw' = <<>> /\ budget' = packet_bytes /\ pos' = 0 /\ packets' = <<>>
      /\ cur' = cur /\ cur_size' = cur_size
  BY DEF Return
<1>2. cur = <<>> /\ cur_size = 0 /\ <<>> \in Seq(Pieces) /\ packet_bytes \in Nat
  BY <1>1, EmptySeq, BudgetAssumption DEF Split, Finished
<1>3. IsText(text')
  BY <1>1, Empty
<1>4. Types'
  BY <1>1, <1>2, <1>3, Empty DEF Types
<1>5. QED
  BY <1>1, <1>2, <1>4 DEF Split, Begun, Passing, Finished

\* Nothing is split at the start.
LEMMA SplitInit ==
  ASSUME Init
  PROVE  Split
<1>1. <<>> \in Seq(Pieces) /\ packet_bytes \in Nat
  BY EmptySeq, BudgetAssumption
<1>2. Types
  BY <1>1, Empty DEF Init, Types
<1>3. QED
  BY <1>2 DEF Init, Split, Begun, Passing, Finished

\* Split is inductive.
LEMMA SplitStep ==
  ASSUME Split, [Next]_vars
  PROVE  Split'
<1>1. ASSUME NEW to \in pos .. end, BeginPacket(to) PROVE Split'
  BY <1>1, BeginPacketStep
<1>2. ASSUME NEW to \in pos .. end, Join(to) PROVE Split'
  BY <1>2, JoinStep
<1>3. ASSUME NEW to \in pos .. end, BeginWrap(to) PROVE Split'
  BY <1>3, BeginWrapStep
<1>4. ASSUME NEW to \in pos .. end, Chunk(to) PROVE Split'
  BY <1>4, ChunkStep
<1>5. ASSUME NEW to \in pos .. end, LastChunk(to) PROVE Split'
  BY <1>5, LastChunkStep
<1>6. CASE Reply
  BY <1>6, ReplyStep
<1>7. CASE Measure
  BY <1>7, MeasureStep
<1>8. CASE EndFirst
  BY <1>8, EndFirstStep
<1>9. CASE EndSecond
  BY <1>9, EndSecondStep
<1>10. CASE Return
  BY <1>10, ReturnStep
<1>11. CASE UNCHANGED vars
  BY <1>11 DEF vars, Split, Types, Begun, Passing, Finished, IsText, Budget, LabelBytes,
               Digits
<1>12. QED
  BY <1>1, <1>2, <1>3, <1>4, <1>5, <1>6, <1>7, <1>8, <1>9, <1>10, <1>11 DEF Next

\* So it holds in every reachable state.
LEMMA AlwaysSplit == Spec => []Split
<1>1. Init => Split
  BY SplitInit
<1>2. Split /\ [Next]_vars => Split'
  BY SplitStep
<1>3. QED
  BY <1>1, <1>2, PTL DEF Spec

-----------------------------------------------------------------------------
(* What the recipient may rely on                                          *)

\* The packets split_packets returns are, read in the order of their labels, the whole
\* text of the reply but for the newlines between them.
THEOREM NothingIsLost == Spec => []NothingLost
<1>1. Split => NothingLost
  <2> SUFFICES ASSUME Split, pc = "done"
               PROVE  /\ packets # <<>> /\ packets[1].from = 0
                      /\ packets[Len(packets)].to = end
                      /\ \A i \in 1 .. Len(packets) - 1 :
                           LET ended == packets[i].to
                           IN  \/ packets[i + 1].from = ended
                               \/ /\ packets[i + 1].from = ended + 1
                                  /\ ended + 1 \in text.newlines
    BY DEF NothingLost
  <2>1. /\ Chained(text, end, packets) /\ packets # <<>>
        /\ packets[Len(packets)].to = end /\ Len(packets) \in Nat
    BY LenProperties DEF Split, Finished, Types
  <2>2. ASSUME NEW i \in 1 .. Len(packets) - 1
        PROVE  packets[i + 1].from = After(text, packets[i].to)
    <3>1. i \in 1 .. Len(packets) /\ i + 1 \in 1 .. Len(packets)
      BY <2>1
    <3>2. QED
      BY <2>1, <3>1 DEF Chained
  <2>3. QED
    BY <2>1, <2>2 DEF Chained, After
<1>2. QED
  BY <1>1, AlwaysSplit, PTL

\* _pack_lines breaks no line that fits a packet with its label.
THEOREM LinesStayWhole == Spec => []WholeLines
<1>1. Split => WholeLines
  <2> SUFFICES ASSUME Split, pc = "done",
                      NEW from \in Begins, NEW to \in 0 .. end,
                      NEW i \in DOMAIN packets,
                      LineEnds(from, to),
                      Bytes(from, to) + LabelBytes(n, n) <= packet_bytes,
                      from < packets[i].to, packets[i].from < to
               PROVE  packets[i].from <= from /\ to <= packets[i].to
    BY DEF WholeLines
  <2> DEFINE p == packets[i]
  <2>1. /\ IsText(text) /\ end \in 0 .. text.length /\ n \in Nat
        /\ packets \in Seq(Pieces) /\ Chained(text, end, packets)
        /\ AllGood(text, end, packets, budget)
        /\ budget = IF n = 0 THEN packet_bytes ELSE Budget(n)
    BY DEF Split, Types, Finished
  <2>2. text.length \in Nat /\ end \in Nat
    BY <2>1, TextFacts
  <2>3. i \in 1 .. Len(packets) /\ p \in Pieces
    BY <2>1, ElementOfSeq
  <2>4. Good(text, end, p, budget) /\ p.from <= p.to /\ p.to <= end
    BY <2>1, <2>3 DEF AllGood, Chained
  <2> HIDE DEF p
  <2>5. p.from \in Nat /\ p.to \in Nat /\ from < p.to /\ p.from < to
    BY <2>3 DEF Pieces, p
  <2>6. from \in Nat /\ to \in Nat /\ Start(text, from)
    BY <2>1, TextFacts DEF Begins, Start
  <2>7. Line(text, end, from, to)
    BY <2>2, <2>6 DEF LineEnds, Line, End, Inside
  <2>8. Size(text, from, to) <= budget /\ budget \in Nat
    <3>1. /\ text.bytes[to] \in Int /\ text.bytes[from] \in Int
      <4>1. from \in 0 .. text.length /\ to \in 0 .. text.length
        BY <2>1, <2>2, <2>6, <2>7 DEF Line
      <4>2. QED
        BY <2>1, <4>1, TextFacts
    <3>2. LabelBytes(n, n) \in Nat /\ packet_bytes \in Nat /\ min_budget \in Nat
      BY <2>1, Budgets, BudgetAssumption
    <3>3. text.bytes[to] - text.bytes[from] + LabelBytes(n, n) <= packet_bytes
      BY DEF Bytes
    <3>4. CASE n = 0
      BY <2>1, <3>1, <3>2, <3>3, <3>4 DEF Size
    <3>5. CASE n # 0
      <4>1. budget = IF packet_bytes < LabelBytes(n, n) + min_budget THEN min_budget
                     ELSE packet_bytes - LabelBytes(n, n)
        BY <2>1, <3>5 DEF Budget
      <4> HIDE DEF Size
      <4>2. text.bytes[to] - text.bytes[from] <= budget /\ budget \in Nat
        BY <3>1, <3>2, <3>3, <4>1
      <4>3. QED
        BY <4>2 DEF Size
    <3>6. QED
      BY <3>4, <3>5
  <2>9. CASE Start(text, p.from) /\ End(text, end, p.to)
    <3>1. p.from <= from
      BY <2>5, <2>6, <2>7, <2>9 DEF Start, Line, Inside
    <3>2. to <= p.to
      BY <2>2, <2>5, <2>6, <2>7, <2>9 DEF End, Line, Inside
    <3>3. QED
      BY <3>1, <3>2 DEF p
  <2>10. CASE \E f, t \in Nat : ChunkOf(text, end, p, budget, f, t)
    <3>1. PICK f \in Nat, t \in Nat : ChunkOf(text, end, p, budget, f, t)
      BY <2>10
    <3>2. /\ Line(text, end, f, t) /\ Size(text, f, t) > budget
          /\ f <= p.from /\ p.to <= t
      BY <3>1 DEF ChunkOf
    <3>3. f = from /\ t = to
      <4>1. f <= to /\ from <= t
        BY <2>5, <2>6, <3>2
      <4>2. QED
        BY <2>1, <2>2, <2>6, <2>7, <3>2, <4>1, OneLine
    <3>4. Size(text, from, to) \in Int
      <4>1. from \in 0 .. text.length /\ to \in 0 .. text.length
        BY <2>1, <2>2, <2>6, <2>7 DEF Line
      <4>2. QED
        BY <2>1, <4>1, TextFacts DEF Size
    <3>5. QED
      BY <2>8, <3>2, <3>3, <3>4
  <2>11. QED
    BY <2>4, <2>9, <2>10 DEF Good, Line
<1>2. QED
  BY <1>1, AlwaysSplit, PTL

\* At least as many packets are sent as the labels written by split_packets announce.
THEOREM AnnouncedDoCome == Spec => []AnnouncedComes
<1>1. Split => AnnouncedComes
  BY DEF Split, Finished, AnnouncedComes
<1>2. QED
  BY <1>1, AlwaysSplit, PTL

\* Lines that _pack_lines joins, and chunks that _hard_wrap cuts, fit the radio with a
\* label of the width their budget was computed for.
THEOREM JoinedLinesDoFit == Spec => []JoinedLinesFit
<1>1. Split => JoinedLinesFit
  <2> SUFFICES ASSUME Split, pc = "done", LabelBytes(n, n) + min_budget <= packet_bytes,
                      NEW i \in DOMAIN packets
               PROVE  \/ IsLine(packets[i].from, packets[i].to)
                      \/ PacketBytes(i) <= packet_bytes + LabelBytes(i, n)
                                             - LabelBytes(n, n)
    BY DEF JoinedLinesFit
  <2> DEFINE p == packets[i]
  <2>1. /\ IsText(text) /\ end \in 0 .. text.length /\ n \in Nat
        /\ packets \in Seq(Pieces) /\ Chained(text, end, packets)
        /\ AllGood(text, end, packets, budget)
        /\ budget = IF n = 0 THEN packet_bytes ELSE Budget(n)
    BY DEF Split, Types, Finished
  <2>2. text.length \in Nat /\ end \in Nat
    BY <2>1, TextFacts
  <2>3. i \in 1 .. Len(packets) /\ p \in Pieces
    BY <2>1, ElementOfSeq
  <2>4. Good(text, end, p, budget) /\ p.from <= p.to /\ p.to <= end
    BY <2>1, <2>3 DEF AllGood, Chained
  <2> HIDE DEF p
  <2>5. p.from \in Nat /\ p.to \in Nat /\ i \in Nat
    BY <2>1, <2>3 DEF Pieces
  <2>6. CASE Line(text, end, p.from, p.to)
    <3>1. IsLine(p.from, p.to)
      BY <2>2, <2>5, <2>6 DEF IsLine, Begins, LineEnds, Line, Start, End, Inside
    <3>2. QED
      BY <3>1 DEF p
  <2>7. CASE Size(text, p.from, p.to) <= budget
    <3>1. /\ LabelBytes(n, n) \in Nat /\ LabelBytes(i, n) \in Nat
          /\ packet_bytes \in Nat /\ min_budget \in Nat
      BY <2>1, <2>5, Budgets, BudgetAssumption
    <3>2. budget = packet_bytes - LabelBytes(n, n)
      <4>1. CASE n = 0
        <5>1. LabelBytes(n, n) = 0
          BY <4>1 DEF LabelBytes
        <5>2. QED
          BY <2>1, <3>1, <4>1, <5>1
      <4>2. CASE n # 0
        <5>1. ~(packet_bytes < LabelBytes(n, n) + min_budget)
          BY <3>1
        <5>2. QED
          BY <2>1, <4>2, <5>1 DEF Budget
      <4>3. QED
        BY <4>1, <4>2
    <3>3. Bytes(p.from, p.to) \in Int /\ Bytes(p.from, p.to) <= budget
      <4>1. p.from \in 0 .. text.length /\ p.to \in 0 .. text.length
        BY <2>1, <2>2, <2>4, <2>5
      <4>2. text.bytes[p.from] \in Int /\ text.bytes[p.to] \in Int
        BY <2>1, <4>1, TextFacts
      <4>3. QED
        BY <2>7, <4>2 DEF Size, Bytes
    <3>4. PacketBytes(i) = LabelBytes(i, n) + Bytes(p.from, p.to)
      BY DEF PacketBytes, p
    <3>5. QED
      BY <3>1, <3>2, <3>3, <3>4
  <2>8. QED
    BY <2>4, <2>6, <2>7 DEF Good, ChunkOf
<1>2. QED
  BY <1>1, AlwaysSplit, PTL

=============================================================================
