--------------------------- MODULE FileCacheProofs ---------------------------
(***************************************************************************)
(* Proofs about FileCache: the rings and what is read from them, for any   *)
(* sizes of ring, chunk, file and read and any seeks.                      *)
(***************************************************************************)
EXTENDS FileCache, Integers, TLAPS

-----------------------------------------------------------------------------
(* Positions and cells.                                                    *)

\* A position has a cell.
LEMMA IndexCell ==
  ASSUME NEW p \in Nat
  PROVE  Index(p) \in Cell /\ Index(p) \in Nat /\ Index(p) < m_size
  BY RingAssumption DEF Index, Cell

\* Multiples of the size are a size apart.
LEMMA Multiples ==
  ASSUME NEW m \in Nat, NEW a \in Nat, NEW b \in Nat, a < b
  PROVE  m * b >= m * a + m
<1>1. PICK c \in Nat : b = a + 1 + c
  <2>1. b - a - 1 \in Nat /\ b = a + 1 + (b - a - 1)
    OBVIOUS
  <2> QED
    BY <2>1
<1>2. m * c \in Nat
  OBVIOUS
<1>3. m * b = m * a + m + m * c
  BY <1>1
<1> QED
  BY <1>2, <1>3

\* What is left of a multiple of the size and less.
LEMMA Remainder ==
  ASSUME NEW m \in Nat, m > 0, NEW a \in Nat, NEW r \in Nat, r < m
  PROVE  (m * a + r) % m = r
  OBVIOUS

\* Positions less than m_size apart have different cells.
LEMMA IndexApart ==
  ASSUME NEW p \in Nat, NEW q \in Nat, p < q, q < p + m_size
  PROVE  Index(p) # Index(q)
<1> DEFINE a == p \div m_size
           b == q \div m_size
<1>1. m_size \in Nat /\ m_size > 0
  BY RingAssumption
<1>2. /\ a \in Nat /\ b \in Nat /\ m_size * a \in Nat /\ m_size * b \in Nat
      /\ p = m_size * a + Index(p) /\ q = m_size * b + Index(q)
  BY <1>1 DEF Index
<1> HIDE DEF a, b
<1>3. Index(p) \in Nat /\ Index(q) \in Nat
  BY IndexCell
<1>4. CASE a < b
  <2>1. m_size * b >= m_size * a + m_size
    BY <1>1, <1>2, <1>4, Multiples
  <2> QED
    BY <1>1, <1>2, <1>3, <2>1
<1>5. CASE b < a
  <2>1. m_size * a >= m_size * b + m_size
    BY <1>1, <1>2, <1>5, Multiples
  <2> QED
    BY <1>1, <1>2, <1>3, <2>1
<1>6. CASE a = b
  BY <1>1, <1>2, <1>3, <1>6
<1> QED
  BY <1>2, <1>4, <1>5, <1>6

\* Cells follow each other up to the wrap.
LEMMA IndexNext ==
  ASSUME NEW p \in Nat, NEW i \in Nat, Index(p) + i < m_size
  PROVE  Index(p + i) = Index(p) + i
<1> DEFINE a == p \div m_size
           r == Index(p) + i
<1>1. m_size \in Nat /\ m_size > 0
  BY RingAssumption
<1>2. /\ a \in Nat /\ p = m_size * a + Index(p) /\ Index(p) \in Nat
      /\ m_size * a \in Nat
  BY <1>1 DEF Index
<1>3. r \in Nat /\ r < m_size /\ p + i = m_size * a + r
  BY <1>1, <1>2
<1> HIDE DEF a, r
<1>4. (m_size * a + r) % m_size = r
  BY <1>1, <1>2, <1>3, Remainder
<1> QED
  BY <1>3, <1>4 DEF Index, r

-----------------------------------------------------------------------------
(* The ring.                                                               *)

\* What is true of a ring between two steps; full says that no seek of the
\* source has failed.
Sane(c, full) ==
  /\ c \in Ring /\ RingBounds(c)
  /\ full => HoldsSource(c)

\* The fields of a ring.
LEMMA RingFields ==
  ASSUME NEW c \in Ring
  PROVE  /\ c.m_beg \in Nat /\ c.m_cur \in Nat /\ c.m_end \in Nat
         /\ c.m_buf \in [Cell -> Nat \cup {Blank}] /\ c.m_bEndOfInput \in BOOLEAN
  BY DEF Ring

LEMMA EmptyRing ==
  ASSUME NEW pos \in Nat, NEW full \in BOOLEAN
  PROVE  Sane(EmptyAt(pos), full)
<1> DEFINE c == EmptyAt(pos)
<1>1. c \in Ring
  BY DEF EmptyAt, Ring
<1>2. c.m_beg = pos /\ c.m_cur = pos /\ c.m_end = pos
  BY DEF EmptyAt
<1>3. RingBounds(c)
  BY <1>2, RingAssumption DEF RingBounds
<1>4. HoldsSource(c)
  BY <1>2 DEF HoldsSource
<1> QED
  BY <1>1, <1>3, <1>4 DEF Sane

\* Moving the reader between the ends of the data changes nothing else.
LEMMA CurMoved ==
  ASSUME NEW c, NEW full \in BOOLEAN, Sane(c, full),
         NEW pos \in Nat, c.m_beg <= pos, pos <= c.m_end
  PROVE  /\ Sane([c EXCEPT !.m_cur = pos], full)
         /\ [c EXCEPT !.m_cur = pos].m_cur = pos
         /\ [c EXCEPT !.m_cur = pos].m_end = c.m_end
         /\ [c EXCEPT !.m_cur = pos].m_bEndOfInput = c.m_bEndOfInput
<1> DEFINE d == [c EXCEPT !.m_cur = pos]
<1>1. c \in Ring
  BY DEF Sane
<1>2. /\ d \in Ring /\ d.m_cur = pos /\ d.m_beg = c.m_beg /\ d.m_end = c.m_end
      /\ d.m_buf = c.m_buf /\ d.m_bEndOfInput = c.m_bEndOfInput
  BY <1>1 DEF Ring
<1> HIDE DEF d
<1>3. RingBounds(d)
  BY <1>2 DEF Sane, RingBounds
<1>4. full => HoldsSource(d)
  BY <1>2 DEF Sane, HoldsSource
<1>5. Sane(d, full)
  BY <1>2, <1>3, <1>4 DEF Sane
<1> QED
  BY <1>2, <1>5 DEF d

\* Neither does the flag of the end of the input.
LEMMA FlagSet ==
  ASSUME NEW c, NEW full \in BOOLEAN, Sane(c, full), NEW b \in BOOLEAN
  PROVE  /\ Sane([c EXCEPT !.m_bEndOfInput = b], full)
         /\ [c EXCEPT !.m_bEndOfInput = b].m_cur = c.m_cur
         /\ [c EXCEPT !.m_bEndOfInput = b].m_end = c.m_end
         /\ [c EXCEPT !.m_bEndOfInput = b].m_bEndOfInput = b
<1> DEFINE d == [c EXCEPT !.m_bEndOfInput = b]
<1>1. c \in Ring
  BY DEF Sane
<1>2. /\ d \in Ring /\ d.m_cur = c.m_cur /\ d.m_beg = c.m_beg /\ d.m_end = c.m_end
      /\ d.m_buf = c.m_buf
  BY <1>1 DEF Ring
<1>3. d.m_bEndOfInput = b
  BY <1>1, Zenon DEF Ring
<1> HIDE DEF d
<1>4. RingBounds(d)
  BY <1>2 DEF Sane, RingBounds
<1>5. full => HoldsSource(d)
  BY <1>2 DEF Sane, HoldsSource
<1>6. Sane(d, full)
  BY <1>2, <1>4, <1>5 DEF Sane
<1> QED
  BY <1>2, <1>3, <1>6 DEF d

LEMMA FlagOperators ==
  ASSUME NEW c, NEW full \in BOOLEAN, Sane(c, full)
  PROVE  /\ Sane(EndOfInput(c), full) /\ Sane(ClearEndOfInput(c), full)
         /\ EndOfInput(c).m_cur = c.m_cur /\ EndOfInput(c).m_end = c.m_end
         /\ ClearEndOfInput(c).m_cur = c.m_cur /\ ClearEndOfInput(c).m_end = c.m_end
         /\ ~ ClearEndOfInput(c).m_bEndOfInput
<1>1. TRUE \in BOOLEAN /\ FALSE \in BOOLEAN
  OBVIOUS
<1> QED
  BY <1>1, FlagSet DEF EndOfInput, ClearEndOfInput

\* Reset puts the reader at the position, with the data after it or with none.
LEMMA ResetRing ==
  ASSUME NEW c, NEW full \in BOOLEAN, Sane(c, full), NEW pos \in Nat
  PROVE  /\ Sane(Reset(c, pos), full)
         /\ Reset(c, pos).m_cur = pos
         /\ Reset(c, pos).m_end = CachedDataEndPosIfSeekTo(c, pos)
         /\ Reset(c, pos).m_bEndOfInput = c.m_bEndOfInput
<1>1. c \in Ring /\ c.m_bEndOfInput \in BOOLEAN
  BY RingFields DEF Sane
<1>2. CASE IsCachedPosition(c, pos)
  BY <1>2, CurMoved DEF Reset, CachedDataEndPosIfSeekTo, IsCachedPosition
<1>3. CASE ~ IsCachedPosition(c, pos)
  <2>1. Sane(EmptyAt(pos), full)
    BY EmptyRing
  <2>2. EmptyAt(pos).m_cur = pos /\ EmptyAt(pos).m_end = pos
    BY DEF EmptyAt
  <2> QED
    BY <1>1, <1>3, <2>1, <2>2, FlagSet DEF Reset, CachedDataEndPosIfSeekTo
<1> QED
  BY <1>2, <1>3

\* Seek takes the position if it is in the ring.
LEMMA SeekRing ==
  ASSUME NEW c, NEW full \in BOOLEAN, Sane(c, full), NEW pos \in Nat
  PROVE  /\ Sane(SeekTo(c, pos), full) /\ Sane(SeekWaiting(c), full)
         /\ IsCachedPosition(c, pos) => SeekTo(c, pos).m_cur = pos
         /\ SeekTo(c, pos).m_end = c.m_end
         /\ SeekTo(c, pos).m_bEndOfInput = c.m_bEndOfInput
         /\ SeekWaiting(c).m_cur = c.m_end /\ SeekWaiting(c).m_end = c.m_end
         /\ SeekWaiting(c).m_bEndOfInput = c.m_bEndOfInput
<1>1. /\ c.m_end \in Nat /\ c.m_beg \in Nat /\ c.m_beg <= c.m_end /\ c.m_end <= c.m_end
  BY RingFields DEF Sane, RingBounds
<1>2. CASE IsCachedPosition(c, pos)
  BY <1>1, <1>2, CurMoved DEF SeekTo, SeekWaiting, IsCachedPosition
<1>3. CASE ~ IsCachedPosition(c, pos)
  BY <1>1, <1>3, CurMoved DEF SeekTo, SeekWaiting
<1> QED
  BY <1>2, <1>3

\* How much is written, and that the reader and m_size_back bytes behind it
\* stay in the ring.
LEMMA WriteBounds ==
  ASSUME NEW c \in Ring, RingBounds(c), NEW len \in Nat
  PROVE  /\ WriteLength(c, len) \in Nat /\ WriteLength(c, len) <= len
         /\ Index(c.m_end) + WriteLength(c, len) <= m_size
         /\ c.m_end + WriteLength(c, len) - m_size <= c.m_cur
         /\ \/ c.m_end + WriteLength(c, len) - c.m_beg <= m_size
            \/ c.m_end + WriteLength(c, len) - m_size + m_size_back <= c.m_cur
<1>1. c.m_beg \in Nat /\ c.m_cur \in Nat /\ c.m_end \in Nat
  BY RingFields
<1>2. /\ m_size \in Nat /\ m_size_back \in Nat /\ m_size_back < m_size
      /\ Index(c.m_end) \in Nat /\ Index(c.m_end) < m_size
  BY <1>1, RingAssumption, IndexCell
<1>3. /\ Limit(c) \in Nat
      /\ Limit(c) = m_size - Smaller(Back(c), m_size_back) - (c.m_end - c.m_cur)
  BY <1>1, <1>2 DEF Limit, Smaller, Back, Front, RingBounds
<1>4. /\ WriteLength(c, len) \in Nat /\ WriteLength(c, len) <= len
      /\ WriteLength(c, len) <= Limit(c)
      /\ Index(c.m_end) + WriteLength(c, len) <= m_size
  BY <1>1, <1>2, <1>3 DEF WriteLength, Smaller
<1> QED
  BY <1>1, <1>2, <1>3, <1>4 DEF Smaller, Back, RingBounds

\* The ring after a write, field by field.
LEMMA WriteFields ==
  ASSUME NEW c \in Ring, RingBounds(c), NEW first \in Nat, NEW len \in Nat
  PROVE  LET d == WriteToCache(c, first, len)
             n == WriteLength(c, len)
         IN /\ d \in Ring /\ d.m_cur = c.m_cur /\ d.m_end = c.m_end + n
            /\ d.m_beg = IF (c.m_end + n) - c.m_beg > m_size THEN (c.m_end + n) - m_size
                         ELSE c.m_beg
            /\ d.m_bEndOfInput = c.m_bEndOfInput
            /\ d.m_buf = [i \in Cell |->
                            IF i >= Index(c.m_end) /\ i < Index(c.m_end) + n
                              THEN first + (i - Index(c.m_end)) ELSE c.m_buf[i]]
<1> DEFINE d == WriteToCache(c, first, len)
           n == WriteLength(c, len)
           beg == IF (c.m_end + n) - c.m_beg > m_size THEN (c.m_end + n) - m_size
                  ELSE c.m_beg
           buf == [i \in Cell |-> IF i >= Index(c.m_end) /\ i < Index(c.m_end) + n
                                    THEN first + (i - Index(c.m_end)) ELSE c.m_buf[i]]
<1>1. /\ c.m_beg \in Nat /\ c.m_cur \in Nat /\ c.m_end \in Nat
      /\ c.m_buf \in [Cell -> Nat \cup {Blank}]
  BY RingFields
<1>2. n \in Nat /\ m_size \in Nat /\ Index(c.m_end) \in Nat
  BY <1>1, WriteBounds, RingAssumption, IndexCell
<1>3. d = [c EXCEPT !.m_end = c.m_end + n, !.m_beg = beg, !.m_buf = buf]
  BY Zenon DEF WriteToCache
<1>4. beg \in Nat
  BY <1>1, <1>2
<1>5. \A i \in Cell : i \in Nat
  BY DEF Cell
<1>6. buf \in [Cell -> Nat \cup {Blank}]
  BY <1>1, <1>2, <1>5
<1>7. c.m_end + n \in Nat
  BY <1>1, <1>2
<1> HIDE DEF d, n, beg, buf
<1>8. /\ d \in Ring /\ d.m_cur = c.m_cur /\ d.m_end = c.m_end + n /\ d.m_beg = beg
      /\ d.m_bEndOfInput = c.m_bEndOfInput /\ d.m_buf = buf
  BY <1>3, <1>4, <1>6, <1>7 DEF Ring
<1> QED
  BY <1>8 DEF d, n, beg, buf

\* A write of the source's bytes at the end of the data leaves a ring of the
\* source's bytes: the cells it fills are those of the new positions, and no
\* older position that stays in the ring shares one.
LEMMA WriteRing ==
  ASSUME NEW c, NEW full \in BOOLEAN, Sane(c, full), NEW first \in Nat, NEW len \in Nat,
         full => first = c.m_end
  PROVE  Sane(WriteToCache(c, first, len), full)
<1> DEFINE d == WriteToCache(c, first, len)
           n == WriteLength(c, len)
           pos == Index(c.m_end)
<1>1. /\ c \in Ring /\ RingBounds(c)
      /\ c.m_beg \in Nat /\ c.m_cur \in Nat /\ c.m_end \in Nat
  BY RingFields DEF Sane
<1>2. /\ n \in Nat /\ pos + n <= m_size /\ c.m_end + n - m_size <= c.m_cur
      /\ m_size \in Nat /\ pos \in Nat
  BY <1>1, WriteBounds, RingAssumption, IndexCell
<1>3. /\ d \in Ring /\ d.m_cur = c.m_cur /\ d.m_end = c.m_end + n
      /\ d.m_beg = IF (c.m_end + n) - c.m_beg > m_size THEN (c.m_end + n) - m_size
                   ELSE c.m_beg
      /\ d.m_buf = [i \in Cell |-> IF i >= pos /\ i < pos + n
                                     THEN first + (i - pos) ELSE c.m_buf[i]]
  BY <1>1, WriteFields
<1> HIDE DEF d, n, pos
<1>4. RingBounds(d)
  BY <1>1, <1>2, <1>3 DEF RingBounds
<1>5. ASSUME full, NEW p \in d.m_beg .. (d.m_end - 1)
      PROVE  d.m_buf[Index(p)] = p
  <2>1. p \in Nat /\ p >= c.m_beg /\ p + m_size >= c.m_end + n /\ p < c.m_end + n
    BY <1>1, <1>2, <1>3, <1>4 DEF RingBounds
  <2>2. Index(p) \in Cell /\ Index(p) \in Nat
    BY <2>1, IndexCell
  <2>3. CASE p >= c.m_end
    <3> DEFINE i == p - c.m_end
    <3>1. i \in Nat /\ p = c.m_end + i /\ i < n
      BY <1>1, <1>2, <2>1, <2>3
    <3> HIDE DEF i
    <3>2. Index(p) = pos + i
      BY <1>1, <1>2, <3>1, IndexNext DEF pos
    <3> QED
      BY <1>1, <1>2, <1>3, <1>5, <2>2, <3>1, <3>2
  <2>4. CASE p < c.m_end
    <3>1. c.m_buf[Index(p)] = p
      BY <1>1, <1>5, <2>1, <2>4 DEF Sane, HoldsSource
    <3>2. ASSUME Index(p) >= pos, Index(p) < pos + n PROVE FALSE
      <4> DEFINE i == Index(p) - pos
                 q == c.m_end + i
      <4>1. i \in Nat /\ pos + i = Index(p) /\ i < n
        BY <1>2, <2>2, <3>2
      <4>2. q \in Nat /\ p < q /\ q < p + m_size /\ pos + i < m_size
        BY <1>1, <1>2, <2>1, <2>4, <4>1
      <4> HIDE DEF i
      <4>3. Index(q) = pos + i
        BY <1>1, <4>1, <4>2, IndexNext DEF pos
      <4> HIDE DEF q
      <4> QED
        BY <2>1, <4>1, <4>2, <4>3, IndexApart
    <3> QED
      BY <1>3, <2>2, <3>1, <3>2
  <2> QED
    BY <1>1, <2>1, <2>3, <2>4
<1>6. full => HoldsSource(d)
  BY <1>5 DEF HoldsSource
<1> QED
  BY <1>3, <1>4, <1>6 DEF Sane, d

\* What a read takes is the source from the position of the reader on.
LEMMA ReadRing ==
  ASSUME NEW c, NEW full \in BOOLEAN, Sane(c, full), NEW len \in Nat
  PROVE  /\ ReadLength(c, len) \in Nat
         /\ Sane(ReadFromCache(c, len), full)
         /\ ReadFromCache(c, len).m_cur = c.m_cur + ReadLength(c, len)
         /\ ReadFromCache(c, len).m_end = c.m_end
         /\ ReadFromCache(c, len).m_bEndOfInput = c.m_bEndOfInput
         /\ full => \A i \in DOMAIN BytesRead(c, len) :
                      BytesRead(c, len)[i] = c.m_cur + i
<1> DEFINE n == ReadLength(c, len)
<1>1. /\ c \in Ring /\ RingBounds(c)
      /\ c.m_beg \in Nat /\ c.m_cur \in Nat /\ c.m_end \in Nat
  BY RingFields DEF Sane
<1>2. m_size \in Nat /\ Index(c.m_cur) \in Nat /\ Index(c.m_cur) < m_size
  BY <1>1, RingAssumption, IndexCell
<1>3. n \in Nat /\ c.m_cur + n <= c.m_end /\ Index(c.m_cur) + n <= m_size
  BY <1>1, <1>2 DEF ReadLength, Smaller, Front, RingBounds
<1> HIDE DEF n
<1>4. c.m_beg <= c.m_cur + n /\ c.m_cur + n \in Nat
  BY <1>1, <1>3 DEF RingBounds
<1>5. ReadFromCache(c, len) = [c EXCEPT !.m_cur = c.m_cur + n]
  BY DEF ReadFromCache, n
<1>6. ASSUME full, NEW i \in 0 .. (n - 1)
      PROVE  c.m_buf[Index(c.m_cur) + i] = c.m_cur + i
  <2>1. /\ i \in Nat /\ c.m_cur + i \in c.m_beg .. (c.m_end - 1)
        /\ Index(c.m_cur) + i < m_size
    BY <1>1, <1>2, <1>3, <1>6 DEF RingBounds
  <2>2. Index(c.m_cur + i) = Index(c.m_cur) + i
    BY <1>1, <2>1, IndexNext
  <2> QED
    BY <1>6, <2>1, <2>2 DEF Sane, HoldsSource
<1>7. BytesRead(c, len) = [i \in 0 .. (n - 1) |-> c.m_buf[Index(c.m_cur) + i]]
  BY DEF BytesRead, n
<1> QED
  BY <1>3, <1>4, <1>5, <1>6, <1>7, CurMoved DEF n

-----------------------------------------------------------------------------
(* The two rings.                                                          *)

\* A cache whose active ring is replaced.
LEMMA ActiveRing ==
  ASSUME NEW d \in Cache, NEW c \in Ring
  PROVE  /\ [d EXCEPT !.m_pCache = c] \in Cache
         /\ [d EXCEPT !.m_pCache = c].m_pCache = c
         /\ [d EXCEPT !.m_pCache = c].m_pCacheOld = d.m_pCacheOld
         /\ [d EXCEPT !.m_pCache = c].double = d.double
  BY DEF Cache

\* Reset puts the reader at the position on one ring or the other, with the
\* data up to where EndPosIfSeekTo said; the ring left keeps what it has.
LEMMA ResetRings ==
  ASSUME NEW d \in Cache, NEW full \in BOOLEAN, NEW pos \in Nat,
         Sane(d.m_pCache, full), d.m_pCacheOld # NULL => Sane(d.m_pCacheOld, full),
         ~ d.double => d.m_pCacheOld = NULL,
         ~ d.m_pCache.m_bEndOfInput,
         d.m_pCacheOld # NULL => ~ d.m_pCacheOld.m_bEndOfInput
  PROVE  LET e == ResetCache(d, pos)
         IN  /\ e \in Cache /\ e.double = d.double
             /\ Sane(e.m_pCache, full) /\ (e.m_pCacheOld # NULL => Sane(e.m_pCacheOld, full))
             /\ ~ e.double => e.m_pCacheOld = NULL
             /\ e.m_pCache.m_cur = pos
             /\ e.m_pCache.m_end = EndPosIfSeekTo(d, pos)
             /\ ~ e.m_pCache.m_bEndOfInput
             /\ e.m_pCacheOld = d.m_pCacheOld \/ e.m_pCacheOld = d.m_pCache
<1> DEFINE e == ResetCache(d, pos)
           act == d.m_pCache
           oth == d.m_pCacheOld
           mid == IF oth = NULL THEN EmptyAt(0) ELSE oth
<1>1. /\ act \in Ring /\ oth \in Ring \cup {NULL} /\ d.double \in BOOLEAN
      /\ act.m_beg \in Nat /\ act.m_end \in Nat /\ act.m_beg <= act.m_end
  BY RingFields DEF Cache, Sane, RingBounds
<1>2. oth # NULL => oth.m_beg \in Nat /\ oth.m_end \in Nat /\ oth.m_beg <= oth.m_end
  BY <1>1, RingFields DEF Sane, RingBounds
<1>3. CASE ~ d.double \/ StaysOnRing(d, pos)
  <2>1. e = [d EXCEPT !.m_pCache = Reset(act, pos)]
    BY <1>3 DEF ResetCache
  <2>2. /\ Sane(Reset(act, pos), full) /\ Reset(act, pos).m_cur = pos
        /\ Reset(act, pos).m_end = CachedDataEndPosIfSeekTo(act, pos)
        /\ Reset(act, pos).m_bEndOfInput = act.m_bEndOfInput
    BY ResetRing
  <2>3. Reset(act, pos) \in Ring
    BY <2>2 DEF Sane
  <2> HIDE DEF act, oth, e, mid
  <2>4. /\ e \in Cache /\ e.m_pCache = Reset(act, pos) /\ e.m_pCacheOld = oth
        /\ e.double = d.double
    BY <2>1, <2>3, ActiveRing DEF oth
  <2>5. CachedDataEndPosIfSeekTo(act, pos) = EndPosIfSeekTo(d, pos)
    BY <1>1, <1>2, <1>3 DEF CachedDataEndPosIfSeekTo, EndPosIfSeekTo, StaysOnRing, InOld,
       Larger, IsCachedPosition, act, oth
  <2>6. ~ Reset(act, pos).m_bEndOfInput
    BY <2>2 DEF act
  <2> QED
    BY <2>2, <2>4, <2>5, <2>6 DEF act, oth, e
<1>4. CASE ~ (~ d.double \/ StaysOnRing(d, pos))
  <2>1. e = [d EXCEPT !.m_pCacheOld = act, !.m_pCache = Reset(mid, pos)]
    BY <1>4 DEF ResetCache
  <2>2. /\ Sane(EmptyAt(0), full) /\ ~ EmptyAt(0).m_bEndOfInput
        /\ EmptyAt(0).m_beg = 0 /\ EmptyAt(0).m_end = 0
    BY EmptyRing DEF EmptyAt
  <2>3. Sane(mid, full) /\ ~ mid.m_bEndOfInput
    BY <2>2
  <2> HIDE DEF mid
  <2>4. /\ Sane(Reset(mid, pos), full) /\ Reset(mid, pos).m_cur = pos
        /\ Reset(mid, pos).m_end = CachedDataEndPosIfSeekTo(mid, pos)
        /\ Reset(mid, pos).m_bEndOfInput = mid.m_bEndOfInput
    BY <2>3, ResetRing
  <2>5. Reset(mid, pos) \in Ring
    BY <2>4 DEF Sane
  <2>6. /\ e \in Cache /\ e.m_pCache = Reset(mid, pos) /\ e.m_pCacheOld = act
        /\ e.double = d.double
    BY <1>1, <2>1, <2>5 DEF Cache
  <2>7. CachedDataEndPosIfSeekTo(mid, pos) = EndPosIfSeekTo(d, pos)
    BY <1>1, <1>2, <1>4, <2>2 DEF CachedDataEndPosIfSeekTo, EndPosIfSeekTo, StaysOnRing,
       InOld, Larger, IsCachedPosition, mid
  <2> HIDE DEF e
  <2>8. d.double
    BY <1>4
  <2>9. ~ Reset(mid, pos).m_bEndOfInput
    BY <2>3, <2>4
  <2> QED
    BY <2>4, <2>6, <2>7, <2>8, <2>9 DEF e
<1> QED
  BY <1>3, <1>4

-----------------------------------------------------------------------------
(***************************************************************************)
(* The inductive invariant.  Between a request of the reader and its end   *)
(* the reader and Process share positions by way of two events only, so    *)
(* the invariant says, for each place either can be at, how m_readPos,     *)
(* m_writePos, the position of the source and the ends of the ring go      *)
(* together.                                                               *)
(***************************************************************************)
old  == m_pCache.m_pCacheOld
Full == "seek" \notin sourceFailed

Rings == Sane(ring, Full) /\ (old # NULL => Sane(old, Full))

\* The flag of the end of the input is up only while Process is at that end.
InputInv ==
  /\ ~ m_pCache.double => old = NULL
  /\ old # NULL => ~ old.m_bEndOfInput /\ old.m_end <= m_fileSize
  /\ ring.m_bEndOfInput =>
       process.at = "eof" \/ (process.at \in {"exit", "done"} /\ m_bStop)
  /\ m_StopEvent => m_bStop
  /\ process.at = "eof" => m_writePos = m_fileSize \/ "read" \in sourceFailed

\* The ring ends with what has been written of the chunk in hand.
ChunkInv ==
  /\ ring.m_end = m_writePos + process.iTotalWrite
  /\ process.iTotalWrite <= process.iRead
  /\ m_writePos + process.iRead <= m_fileSize
  /\ process.at # "write" => process.iRead = 0

InStep == sourcePos = m_writePos \/ m_writePos = m_fileSize

\* The source is read where the ring ends, but for a chunk that was dropped
\* for a seek or a stop, and then the seek or the stop is still to be seen.
SourceInv ==
  Full =>
    /\ process.at \in {"start", "top"} => InStep \/ m_seekEvent \/ m_bStop
    /\ process.at = "poll" => InStep \/ m_seekEvent
    /\ process.at \in {"space", "source", "eof"} => InStep
    /\ process.at = "write" => /\ process.first = m_writePos
                               /\ process.first + process.iRead = sourcePos

Closing == {"stopping", "waking", "joining", "closed"}

\* An event is up only for a reader that asked, or at the end of the thread.
EventInv ==
  /\ m_seekEvent => reader.at \in {"requested"} \cup Closing \/ process.at = "done"
  /\ m_seekEnded => \/ reader.at = "requested" /\ ~ m_seekEvent
                    \/ reader.at \in Closing \/ process.at = "done"
  /\ reader.at \in Closing \/ process.at = "done" => m_bStop

\* Where the reader of the ring is, at each place of Read and Seek.
PositionInv ==
  Sound =>
    /\ reader.at \in {"idle", "reading", "waiting"} => m_readPos = ring.m_cur
    /\ reader.at = "requested" => m_seekPos <= reader.arg
    /\ reader.at = "requested" /\ m_seekEnded =>
         m_readPos = m_seekPos /\ ring.m_cur = m_seekPos
    /\ reader.at = "remaining" => /\ m_seekPos <= reader.arg
                                  /\ m_readPos = m_seekPos /\ ring.m_cur = m_seekPos
    /\ reader.at = "again" => ring.m_cur <= reader.arg /\ reader.arg <= ring.m_end
    /\ reader.at \in {"againWait", "ended"} => ring.m_cur = reader.arg

IInv == TypeOK /\ Rings /\ InputInv /\ ChunkInv /\ SourceInv /\ EventInv /\ PositionInv

\* What the types say of the records, and of the constants.
LEMMA Types ==
  ASSUME TypeOK
  PROVE  /\ m_pCache \in Cache /\ ring \in Ring /\ m_pCache.double \in BOOLEAN
         /\ ring.m_beg \in Nat /\ ring.m_cur \in Nat /\ ring.m_end \in Nat
         /\ ring.m_bEndOfInput \in BOOLEAN
         /\ Full \in BOOLEAN
         /\ m_readPos \in Nat /\ m_writePos \in Nat /\ m_seekPos \in Nat
         /\ sourcePos \in Nat /\ m_writePos <= m_fileSize /\ sourcePos <= m_fileSize
         /\ m_seekPos <= m_fileSize
         /\ m_seekEvent \in BOOLEAN /\ m_seekEnded \in BOOLEAN /\ m_bStop \in BOOLEAN
         /\ reader \in [at : ReaderAt, arg : Nat] /\ reader.at \in ReaderAt
         /\ reader.arg \in Nat
         /\ process.at \in ProcessAt /\ process.first \in Nat
         /\ process.iRead \in Nat /\ process.iTotalWrite \in Nat
         /\ m_fileSize \in Nat /\ m_fileSize > 0 /\ m_chunkSize \in Nat /\ m_chunkSize > 0
<1>1. ring \in Ring /\ m_pCache.double \in BOOLEAN
  BY DEF TypeOK, Cache, ring
<1>2. Full \in BOOLEAN
  BY DEF Full
<1>3. m_fileSize \in Nat /\ m_fileSize > 0 /\ m_chunkSize \in Nat /\ m_chunkSize > 0
  BY FileCacheAssumption
<1>4. m_readPos \in Nat /\ m_writePos \in Nat /\ m_seekPos \in Nat
      /\ sourcePos \in Nat /\ m_writePos <= m_fileSize /\ sourcePos <= m_fileSize
      /\ m_seekPos <= m_fileSize
  BY <1>3 DEF TypeOK
<1>5. /\ reader \in [at : ReaderAt, arg : Nat] /\ reader.at \in ReaderAt
      /\ reader.arg \in Nat
  BY DEF TypeOK
<1>6. /\ process.at \in ProcessAt /\ process.first \in Nat
      /\ process.iRead \in Nat /\ process.iTotalWrite \in Nat
  BY <1>3 DEF TypeOK
<1>7. m_seekEvent \in BOOLEAN /\ m_seekEnded \in BOOLEAN /\ m_bStop \in BOOLEAN
  BY DEF TypeOK
<1> QED
  BY <1>1, <1>2, <1>3, <1>4, <1>5, <1>6, <1>7, RingFields DEF TypeOK

LEMMA InitInv == Init => IInv
<1> SUFFICES ASSUME Init PROVE IInv
  OBVIOUS
<1>1. PICK double \in BOOLEAN : m_pCache = OpenedCache(double)
  BY DEF Init
<1>2. Sane(EmptyAt(0), Full) /\ EmptyAt(0) \in Ring
  BY EmptyRing DEF Sane, Full
<1>3. /\ ring = EmptyAt(0) /\ old = NULL /\ m_pCache.double = double
      /\ m_pCache \in Cache
  BY <1>1, <1>2 DEF OpenedCache, ring, old, Cache
<1>4. ring.m_end = 0 /\ ring.m_cur = 0 /\ ~ ring.m_bEndOfInput
  BY <1>3 DEF EmptyAt
<1>5. m_fileSize \in Nat /\ m_chunkSize \in Nat
  BY FileCacheAssumption
<1>6. TypeOK
  <2>1. reader \in [at : ReaderAt, arg : Nat]
    BY DEF Init, ReaderIdle, ReaderAt
  <2>2. process \in [at : ProcessAt, first : 0 .. m_fileSize, iRead : 0 .. m_chunkSize,
                     iTotalWrite : 0 .. m_chunkSize]
    BY <1>5 DEF Init, ProcessIdle, ProcessAt
  <2>3. /\ m_seekPossible \in BOOLEAN /\ m_seekEvent \in BOOLEAN
        /\ m_seekEnded \in BOOLEAN
        /\ m_bStop \in BOOLEAN /\ m_StopEvent \in BOOLEAN
    BY DEF Init
  <2>4. /\ m_readPos \in Nat /\ m_writePos \in 0 .. m_fileSize
        /\ m_seekPos \in 0 .. m_fileSize /\ sourcePos \in 0 .. m_fileSize
    BY <1>5 DEF Init
  <2>5. sourceFailed \subseteq {"seek", "read"}
    BY DEF Init
  <2> QED
    BY <1>3, <2>1, <2>2, <2>3, <2>4, <2>5 DEF TypeOK
<1>7. /\ process.at = "start" /\ process.iRead = 0 /\ process.iTotalWrite = 0
      /\ reader.at = "idle"
  BY DEF Init, ProcessIdle, ReaderIdle
<1>8. Rings /\ InputInv
  BY <1>2, <1>3, <1>4, <1>7 DEF Init, Rings, InputInv
<1>9. ChunkInv /\ SourceInv
  BY <1>4, <1>5, <1>7 DEF Init, ChunkInv, SourceInv, InStep
<1>10. EventInv /\ PositionInv
  BY <1>4, <1>7 DEF Init, EventInv, PositionInv, Closing
<1> QED
  BY <1>6, <1>8, <1>9, <1>10 DEF IInv

-----------------------------------------------------------------------------
(* Steps of the reader.                                                    *)

\* The active ring becomes c, and the other stays.
BecomesRing(c) == m_pCache' = [m_pCache EXCEPT !.m_pCache = c]

\* What a step does to the rings when it replaces the active one.
RingsKept == /\ m_pCache' \in Cache
             /\ Sane(ring', Full) /\ (old # NULL => Sane(old, Full))
             /\ old' = old /\ m_pCache'.double = m_pCache.double

LEMMA RingBecomes ==
  ASSUME TypeOK, Rings, NEW c, Sane(c, Full), BecomesRing(c)
  PROVE  RingsKept /\ ring' = c
<1>1. m_pCache \in Cache /\ c \in Ring
  BY Types DEF Sane
<1>2. /\ m_pCache' \in Cache /\ m_pCache'.m_pCache = c
      /\ m_pCache'.m_pCacheOld = m_pCache.m_pCacheOld
      /\ m_pCache'.double = m_pCache.double
  BY <1>1, ActiveRing DEF BecomesRing
<1> QED
  BY <1>2 DEF RingsKept, Rings, ring, old

LEMMA RingsSame ==
  ASSUME TypeOK, Rings, UNCHANGED m_pCache
  PROVE  RingsKept /\ ring' = ring
  BY Types DEF RingsKept, Rings, ring, old

\* A failure of the source only asks less of the rings.
LEMMA SaneWeaker ==
  ASSUME NEW c, Sane(c, Full), "seek" \in sourceFailed => "seek" \in sourceFailed'
  PROVE  Sane(c, Full')
  BY DEF Sane, Full

\* What no step of the reader touches.
ReaderFrame ==
  /\ RingsKept
  /\ ring'.m_end = ring.m_end /\ ring'.m_bEndOfInput = ring.m_bEndOfInput
  /\ m_writePos' = m_writePos /\ sourcePos' = sourcePos /\ process' = process
  /\ sourceFailed' = sourceFailed \/ sourceFailed' = sourceFailed \cup {"seek"}
  /\ m_bStop => m_bStop'
  /\ m_StopEvent' => m_StopEvent \/ m_bStop
  /\ m_seekEvent => m_seekEvent' \/ process.at = "done"

\* The invariants about Process survive a step that leaves them that much.
LEMMA ReaderKeeps ==
  ASSUME IInv, ReaderFrame
  PROVE  Rings' /\ InputInv' /\ ChunkInv' /\ SourceInv'
<1>1. Full' => Full
  BY DEF ReaderFrame, Full
<1>2. Rings'
  BY <1>1, SaneWeaker DEF ReaderFrame, RingsKept, Rings, Sane
<1>3. InputInv'
  BY DEF IInv, ReaderFrame, RingsKept, InputInv
<1>4. ChunkInv'
  BY DEF IInv, ReaderFrame, ChunkInv
<1>5. SourceInv'
  BY <1>1 DEF IInv, ReaderFrame, SourceInv, InStep
<1> QED
  BY <1>2, <1>3, <1>4, <1>5

\* An answer of the cache to a Seek, and a Seek that waits for data.
LEMMA AnswerFrame ==
  ASSUME TypeOK, Rings, NEW iTarget \in Nat
  PROVE  /\ Served(iTarget) => RingsKept /\ ring' = SeekTo(ring, iTarget)
         /\ NotServed(iTarget) => RingsKept /\ ring' = ring
         /\ BecomesRing(SeekWaiting(ring)) => RingsKept /\ ring' = SeekWaiting(ring)
         /\ BecomesRing(SeekTo(ring, iTarget)) => RingsKept /\ ring' = SeekTo(ring, iTarget)
<1>1. Sane(SeekTo(ring, iTarget), Full) /\ Sane(SeekWaiting(ring), Full)
  BY Types, SeekRing DEF Rings
<1>2. Served(iTarget) => BecomesRing(SeekTo(ring, iTarget))
  BY DEF Served, BecomesRing, ring
<1>3. NotServed(iTarget) => UNCHANGED m_pCache
  BY DEF NotServed
<1> QED
  BY <1>1, <1>2, <1>3, RingBecomes, RingsSame

\* What a ring moved by Seek keeps.
LEMMA SeekKeeps ==
  ASSUME TypeOK, Rings, NEW iTarget \in Nat
  PROVE  /\ SeekTo(ring, iTarget).m_end = ring.m_end
         /\ SeekTo(ring, iTarget).m_bEndOfInput = ring.m_bEndOfInput
         /\ IsCachedPosition(ring, iTarget) => SeekTo(ring, iTarget).m_cur = iTarget
         /\ SeekWaiting(ring).m_end = ring.m_end /\ SeekWaiting(ring).m_cur = ring.m_end
         /\ SeekWaiting(ring).m_bEndOfInput = ring.m_bEndOfInput
  BY Types, SeekRing DEF Rings

\* Every step of the reader leaves Process what it relies on.
LEMMA ReaderFrames ==
  ASSUME IInv, ReaderCalls \/ ReaderStep \/ ReadTimedOut
  PROVE  ReaderFrame
<1> USE DEF IInv
<1>1. CASE \/ ReadCall(ReadSize) \/ ReadNothing \/ ReadWaited \/ ReadTimedOut
           \/ SeekEnded \/ SeekRemaining \/ Closed
  <2>1. /\ UNCHANGED m_pCache
        /\ UNCHANGED <<m_writePos, sourcePos, process, sourceFailed>>
        /\ UNCHANGED <<m_bStop, m_StopEvent, m_seekEvent>>
    BY <1>1 DEF ReadCall, ReadNothing, ReadWaited, ReadTimedOut, SeekEnded,
       SeekRemaining, Closed, events, position
  <2> QED
    BY <2>1, RingsSame DEF ReaderFrame
<1>2. CASE CloseCall \/ CloseWakes \/ CloseStops
  <2>1. /\ UNCHANGED m_pCache
        /\ UNCHANGED <<m_writePos, sourcePos, process, sourceFailed>>
        /\ m_bStop => m_bStop'
        /\ m_seekEvent => m_seekEvent'
    BY <1>2, Types DEF CloseCall, CloseWakes, CloseStops, position
  <2>2. m_StopEvent' => m_StopEvent \/ m_bStop
    BY <1>2 DEF CloseCall, CloseWakes, CloseStops, EventInv, Closing
  <2> QED
    BY <2>1, <2>2, RingsSame DEF ReaderFrame
<1>3. CASE SeekReturn
  <2>1. /\ UNCHANGED m_pCache
        /\ UNCHANGED <<m_writePos, sourcePos, process, sourceFailed>>
        /\ UNCHANGED <<m_bStop, m_StopEvent>> /\ reader.at = "ended"
    BY <1>3 DEF SeekReturn
  <2>2. m_seekEvent => process.at = "done"
    BY <2>1 DEF EventInv, Closing
  <2> QED
    BY <2>1, <2>2, RingsSame DEF ReaderFrame
<1>4. CASE ReadData
  <2>1. /\ BecomesRing(ReadFromCache(ring, reader.arg))
        /\ UNCHANGED <<m_writePos, sourcePos, process, sourceFailed>>
        /\ UNCHANGED <<m_bStop, m_StopEvent, m_seekEvent>>
    BY <1>4 DEF ReadData, BecomesRing, ring, events
  <2>2. /\ Sane(ReadFromCache(ring, reader.arg), Full)
        /\ ReadFromCache(ring, reader.arg).m_end = ring.m_end
        /\ ReadFromCache(ring, reader.arg).m_bEndOfInput = ring.m_bEndOfInput
    BY Types, ReadRing DEF Rings
  <2> QED
    BY <2>1, <2>2, RingBecomes DEF ReaderFrame
<1>5. ASSUME NEW iTarget \in 0 .. MaxTarget, SeekCall(iTarget) PROVE ReaderFrame
  <2>1. iTarget \in Nat
    BY FileCacheAssumption
  <2>2. \/ Served(iTarget) \/ NotServed(iTarget)
        \/ BecomesRing(SeekWaiting(ring)) /\ UNCHANGED <<m_seekEvent, sourceFailed>>
    BY <1>5 DEF SeekCall, Answer, BecomesRing, ring
  <2>3. /\ UNCHANGED <<m_writePos, sourcePos, process, m_bStop, m_StopEvent>>
    BY <1>5 DEF SeekCall
  <2>4. /\ sourceFailed' = sourceFailed \/ sourceFailed' = sourceFailed \cup {"seek"}
        /\ m_seekEvent => m_seekEvent'
    BY <2>2 DEF Served, NotServed
  <2> QED
    BY <2>1, <2>2, <2>3, <2>4, AnswerFrame, SeekKeeps DEF ReaderFrame
<1>6. CASE SeekWaited
  <2>1. reader.arg \in Nat
    BY Types
  <2>2. Served(reader.arg) \/ NotServed(reader.arg)
    BY <1>6 DEF SeekWaited, Answer
  <2>3. /\ UNCHANGED <<m_writePos, sourcePos, process, m_bStop, m_StopEvent>>
    BY <1>6 DEF SeekWaited
  <2>4. /\ sourceFailed' = sourceFailed \/ sourceFailed' = sourceFailed \cup {"seek"}
        /\ m_seekEvent => m_seekEvent'
    BY <2>2 DEF Served, NotServed
  <2> QED
    BY <2>1, <2>2, <2>3, <2>4, AnswerFrame, SeekKeeps DEF ReaderFrame
<1>7. CASE SeekAgain \/ SeekAgainWaited
  <2>1. reader.arg \in Nat
    BY Types
  <2>2. \/ UNCHANGED m_pCache \/ BecomesRing(SeekWaiting(ring))
        \/ BecomesRing(SeekTo(ring, reader.arg))
    BY <1>7 DEF SeekAgain, SeekAgainWaited, BecomesRing, ring
  <2>3. /\ UNCHANGED <<m_writePos, sourcePos, process, sourceFailed>>
        /\ UNCHANGED <<m_bStop, m_StopEvent, m_seekEvent>>
    BY <1>7 DEF SeekAgain, SeekAgainWaited, position, events
  <2> QED
    BY <2>1, <2>2, <2>3, AnswerFrame, SeekKeeps, RingsSame DEF ReaderFrame
<1> QED
  BY <1>1, <1>2, <1>3, <1>4, <1>5, <1>6, <1>7 DEF ReaderCalls, ReaderStep

LEMMA ReaderTypes ==
  ASSUME IInv, ReaderCalls \/ ReaderStep \/ ReadTimedOut
  PROVE  TypeOK'
<1>1. /\ m_pCache' \in Cache /\ m_writePos' \in 0 .. m_fileSize
      /\ sourcePos' \in 0 .. m_fileSize /\ sourceFailed' \subseteq {"seek", "read"}
      /\ process' \in [at : ProcessAt, first : 0 .. m_fileSize, iRead : 0 .. m_chunkSize,
                       iTotalWrite : 0 .. m_chunkSize]
  BY ReaderFrames DEF ReaderFrame, RingsKept, IInv, TypeOK
<1>2. TypeOK /\ reader.at \in ReaderAt /\ reader.arg \in Nat
  BY Types DEF IInv
<1>3. /\ m_seekPossible' \in BOOLEAN /\ m_seekEvent' \in BOOLEAN
      /\ m_seekEnded' \in BOOLEAN /\ m_bStop' \in BOOLEAN /\ m_StopEvent' \in BOOLEAN
  BY <1>2 DEF TypeOK, ReaderCalls, ReaderStep, ReadCall, ReadData, ReadNothing,
     ReadWaited, ReadTimedOut, SeekCall, Answer, Served, NotServed, SeekWaited, SeekEnded,
     SeekRemaining, SeekAgain, SeekAgainWaited, SeekReturn, CloseCall, CloseWakes,
     CloseStops, Closed, events, position
<1>4. reader' \in [at : ReaderAt, arg : Nat]
  <2>1. ReadSize \in Nat /\ MaxTarget \in Nat
    BY FileCacheAssumption
  <2>2. \A at \in ReaderAt : [reader EXCEPT !.at = at] \in [at : ReaderAt, arg : Nat]
    BY <1>2 DEF TypeOK
  <2>3. \A arg \in Nat, at \in ReaderAt :
          [at |-> at, arg |-> arg] \in [at : ReaderAt, arg : Nat]
    OBVIOUS
  <2>4. /\ "idle" \in ReaderAt /\ "reading" \in ReaderAt /\ "waiting" \in ReaderAt
        /\ "aheadWait" \in ReaderAt /\ "requested" \in ReaderAt /\ "ended" \in ReaderAt
        /\ "remaining" \in ReaderAt /\ "again" \in ReaderAt /\ "againWait" \in ReaderAt
        /\ "stopping" \in ReaderAt /\ "waking" \in ReaderAt /\ "joining" \in ReaderAt
        /\ "closed" \in ReaderAt
    BY DEF ReaderAt
  <2> HIDE DEF ReaderAt
  <2>5. ReaderIdle \in [at : ReaderAt, arg : Nat]
    BY <2>4 DEF ReaderIdle
  <2>6. CASE ReadCall(ReadSize) \/ ReadData \/ ReadNothing \/ ReadWaited \/ ReadTimedOut
    BY <2>1, <2>2, <2>3, <2>4, <2>5, <2>6
       DEF ReadCall, ReadData, ReadNothing, ReadWaited, ReadTimedOut
  <2>7. ASSUME NEW iTarget \in Nat, Served(iTarget) \/ NotServed(iTarget)
        PROVE  reader' \in [at : ReaderAt, arg : Nat]
    BY <2>3, <2>4, <2>5, <2>7 DEF Served, NotServed
  <2>8. ASSUME NEW iTarget \in 0 .. MaxTarget, SeekCall(iTarget)
        PROVE  reader' \in [at : ReaderAt, arg : Nat]
    BY <2>1, <2>3, <2>4, <2>7, <2>8 DEF SeekCall, Answer
  <2>9. CASE SeekWaited
    BY <1>2, <2>7, <2>9 DEF SeekWaited, Answer
  <2>10. CASE SeekEnded \/ SeekRemaining \/ SeekAgain \/ SeekAgainWaited \/ SeekReturn
    BY <2>2, <2>4, <2>5, <2>10
       DEF SeekEnded, SeekRemaining, SeekAgain, SeekAgainWaited, SeekReturn
  <2>11. CASE CloseCall \/ CloseWakes \/ CloseStops \/ Closed
    BY <2>2, <2>3, <2>4, <2>11 DEF CloseCall, CloseWakes, CloseStops, Closed
  <2> QED
    BY <2>6, <2>8, <2>9, <2>10, <2>11 DEF ReaderCalls, ReaderStep
<1>5. m_readPos' \in Nat /\ m_seekPos' \in 0 .. m_fileSize
  <2>1. MaxTarget \in Nat /\ m_fileSize \in Nat /\ m_chunkSize \in Nat
    BY FileCacheAssumption
  <2>2. m_readPos \in Nat /\ m_seekPos \in 0 .. m_fileSize
    BY <1>2 DEF TypeOK
  <2>3. ASSUME NEW iTarget \in Nat PROVE SeekPosFor(iTarget) \in 0 .. m_fileSize
    BY <2>1 DEF SeekPosFor, Smaller
  <2>4. ASSUME NEW iTarget \in Nat, Served(iTarget) \/ NotServed(iTarget)
        PROVE  m_readPos' \in Nat /\ m_seekPos' \in 0 .. m_fileSize
    BY <2>2, <2>3, <2>4 DEF Served, NotServed
  <2>5. ASSUME NEW iTarget \in 0 .. MaxTarget, SeekCall(iTarget)
        PROVE  m_readPos' \in Nat /\ m_seekPos' \in 0 .. m_fileSize
    BY <2>1, <2>2, <2>4, <2>5 DEF SeekCall, Answer
  <2>6. CASE SeekWaited
    BY <1>2, <2>4, <2>6 DEF SeekWaited, Answer
  <2>7. CASE ReadData
    <3>1. ReadLength(ring, reader.arg) \in Nat
      BY <1>2, ReadRing, Types DEF IInv, Rings
    <3> QED
      BY <2>2, <2>7, <3>1 DEF ReadData
  <2>8. CASE SeekReturn
    BY <1>2, <2>2, <2>8 DEF SeekReturn
  <2>9. CASE \/ ReadCall(ReadSize) \/ ReadNothing \/ ReadWaited \/ ReadTimedOut
             \/ SeekEnded \/ SeekRemaining \/ SeekAgain \/ SeekAgainWaited
             \/ CloseCall \/ CloseWakes \/ CloseStops \/ Closed
    BY <2>2, <2>9 DEF ReadCall, ReadNothing, ReadWaited, ReadTimedOut, SeekEnded,
       SeekRemaining, SeekAgain, SeekAgainWaited, CloseCall, CloseWakes, CloseStops,
       Closed, position
  <2> QED
    BY <2>5, <2>6, <2>7, <2>8, <2>9 DEF ReaderCalls, ReaderStep
<1> QED
  BY <1>1, <1>3, <1>4, <1>5 DEF TypeOK

LEMMA ReaderEvents ==
  ASSUME IInv, ReaderCalls \/ ReaderStep \/ ReadTimedOut
  PROVE  EventInv'
<1>1. EventInv /\ reader \in [at : ReaderAt, arg : Nat] /\ process' = process
  BY Types, ReaderFrames DEF IInv, ReaderFrame
<1>2. CASE ReadCall(ReadSize) \/ ReadData \/ ReadNothing \/ ReadWaited \/ ReadTimedOut
  <2>1. /\ reader.at \in {"idle", "reading", "waiting"}
        /\ reader'.at \in {"idle", "reading", "waiting"}
        /\ UNCHANGED <<m_seekEvent, m_seekEnded, m_bStop>>
    BY <1>1, <1>2
       DEF ReadCall, ReadData, ReadNothing, ReadWaited, ReadTimedOut, events, ReaderIdle
  <2> QED
    BY <1>1, <2>1 DEF EventInv, Closing
<1>3. ASSUME NEW iTarget, Answer(iTarget), reader.at \in {"idle", "aheadWait"},
             UNCHANGED <<m_seekEnded, m_bStop>>
      PROVE  EventInv'
  <2>1. \/ reader'.at = "requested" /\ m_seekEvent'
        \/ reader'.at = "idle" /\ UNCHANGED m_seekEvent
    BY <1>3 DEF Answer, Served, NotServed, ReaderIdle
  <2> QED
    BY <1>1, <1>3, <2>1 DEF EventInv, Closing
<1>4. ASSUME NEW iTarget \in 0 .. MaxTarget, SeekCall(iTarget) PROVE EventInv'
  <2>1. reader.at = "idle" /\ UNCHANGED <<m_seekEnded, m_bStop>>
    BY <1>4 DEF SeekCall
  <2>2. CASE Answer(iTarget)
    BY <1>3, <2>1, <2>2
  <2>3. CASE NotServed(iTarget)
    <3>1. \/ reader'.at = "requested" /\ m_seekEvent'
          \/ reader'.at = "idle" /\ UNCHANGED m_seekEvent
      BY <2>3 DEF NotServed, ReaderIdle
    <3> QED
      BY <1>1, <2>1, <3>1 DEF EventInv, Closing
  <2>4. CASE reader' = [at |-> "aheadWait", arg |-> iTarget] /\ UNCHANGED m_seekEvent
    BY <1>1, <2>1, <2>4 DEF EventInv, Closing
  <2> QED
    BY <1>4, <2>2, <2>3, <2>4 DEF SeekCall
<1>5. CASE SeekWaited
  BY <1>3, <1>5 DEF SeekWaited
<1>6. CASE SeekEnded
  BY <1>1, <1>6 DEF SeekEnded, EventInv, Closing, ReaderIdle
<1>7. CASE SeekRemaining \/ SeekAgain \/ SeekAgainWaited
  <2>1. /\ reader.at \in {"remaining", "again", "againWait"}
        /\ reader'.at \in {"idle", "again", "againWait", "ended"}
        /\ UNCHANGED <<m_seekEvent, m_seekEnded, m_bStop>>
    BY <1>1, <1>7 DEF SeekRemaining, SeekAgain, SeekAgainWaited, events, ReaderIdle
  <2> QED
    BY <1>1, <2>1 DEF EventInv, Closing
<1>8. CASE SeekReturn
  BY <1>1, <1>8 DEF SeekReturn, EventInv, Closing, ReaderIdle
<1>9. CASE CloseCall \/ CloseWakes \/ CloseStops \/ Closed
  <2>1. /\ reader'.at \in Closing /\ m_bStop'
    BY <1>1, <1>9 DEF CloseCall, CloseWakes, CloseStops, Closed, EventInv, Closing, events
  <2> QED
    BY <1>1, <2>1 DEF EventInv
<1> QED
  BY <1>2, <1>4, <1>5, <1>6, <1>7, <1>8, <1>9 DEF ReaderCalls, ReaderStep

LEMMA ReaderPositions ==
  ASSUME IInv, ReaderCalls \/ ReaderStep \/ ReadTimedOut
  PROVE  PositionInv'
<1> SUFFICES ASSUME Sound' PROVE PositionInv'
  BY DEF PositionInv
<1>1. /\ TypeOK /\ Rings /\ PositionInv /\ EventInv /\ Sound
      /\ reader \in [at : ReaderAt, arg : Nat] /\ reader.arg \in Nat
  BY Types, ReaderFrames DEF IInv, ReaderFrame, Sound
<1>2. CASE ReadCall(ReadSize) \/ ReadNothing \/ ReadWaited \/ ReadTimedOut
  <2>1. /\ reader.at \in {"idle", "reading", "waiting"}
        /\ reader'.at \in {"idle", "reading", "waiting"}
        /\ UNCHANGED <<m_readPos, m_pCache>>
    BY <1>1, <1>2
       DEF ReadCall, ReadNothing, ReadWaited, ReadTimedOut, position, ReaderIdle
  <2> QED
    BY <1>1, <2>1 DEF PositionInv, ring
<1>3. CASE ReadData
  <2>1. /\ reader.at = "reading" /\ reader'.at = "idle"
        /\ m_readPos' = m_readPos + ReadLength(ring, reader.arg)
        /\ BecomesRing(ReadFromCache(ring, reader.arg))
    BY <1>3 DEF ReadData, ReaderIdle, BecomesRing, ring
  <2>2. Sane(ring, Full) /\ Full \in BOOLEAN
    BY <1>1, Types DEF Rings
  <2>3. /\ Sane(ReadFromCache(ring, reader.arg), Full)
        /\ ReadFromCache(ring, reader.arg).m_cur
             = ring.m_cur + ReadLength(ring, reader.arg)
    BY ONLY <1>1, <2>2, ReadRing
  <2>4. ring' = ReadFromCache(ring, reader.arg)
    BY <1>1, <2>1, <2>3, RingBecomes
  <2> QED
    BY <1>1, <2>1, <2>3, <2>4 DEF PositionInv
<1>4. ASSUME NEW iTarget \in Nat, NotServed(iTarget),
             reader.at \in {"idle", "aheadWait"}, m_seekEnded' = m_seekEnded
      PROVE  PositionInv'
  <2>1. reader' = [at |-> "requested", arg |-> iTarget] /\ m_seekPos' = SeekPosFor(iTarget)
    BY <1>4 DEF NotServed, Sound
  <2>2. m_seekPos' <= iTarget
    BY <2>1, Types, <1>1 DEF SeekPosFor, Smaller
  <2>3. ~ m_seekEnded'
    BY <1>1, <1>4 DEF EventInv, Closing, Sound
  <2> QED
    BY <2>1, <2>2, <2>3 DEF PositionInv
<1>5. ASSUME NEW iTarget \in Nat, IsCachedPosition(ring, iTarget), Served(iTarget)
      PROVE  PositionInv'
  <2>1. reader'.at = "idle" /\ m_readPos' = iTarget
    BY <1>5 DEF Served, ReaderIdle
  <2>2. ring'.m_cur = iTarget
    BY <1>1, <1>5, AnswerFrame, SeekKeeps
  <2> QED
    BY <2>1, <2>2 DEF PositionInv
<1>6. ASSUME NEW iTarget \in 0 .. MaxTarget, SeekCall(iTarget) PROVE PositionInv'
  <2>1. iTarget \in Nat /\ reader.at = "idle" /\ m_seekEnded' = m_seekEnded
    BY <1>6, FileCacheAssumption DEF SeekCall
  <2>2. CASE NotServed(iTarget)
    BY <1>4, <2>1, <2>2
  <2>3. CASE reader' = [at |-> "aheadWait", arg |-> iTarget]
    BY <2>3 DEF PositionInv
  <2>4. CASE Answer(iTarget)
    BY <1>4, <1>5, <2>1, <2>4 DEF Answer
  <2> QED
    BY <1>6, <2>2, <2>3, <2>4 DEF SeekCall
<1>7. CASE SeekWaited
  BY <1>1, <1>4, <1>5, <1>7 DEF SeekWaited, Answer
<1>8. CASE SeekEnded
  <2>1. /\ reader.at = "requested" /\ UNCHANGED <<m_pCache, m_readPos, m_seekPos>>
        /\ process.at # "done"
    BY <1>1, <1>8 DEF SeekEnded, position, EventInv, Sound
  <2>2. /\ m_seekEnded /\ ~ m_seekEnded' /\ reader'.arg = reader.arg
        /\ reader'.at = IF m_seekPos < reader.arg THEN "remaining" ELSE "ended"
    BY <1>1, <1>8, <2>1 DEF SeekEnded
  <2>3. /\ m_seekPos <= reader.arg /\ m_readPos = m_seekPos /\ ring.m_cur = m_seekPos
    BY <1>1, <2>1, <2>2 DEF PositionInv
  <2>4. ring' = ring /\ m_seekPos \in Nat
    BY <1>1, <2>1, Types DEF ring
  <2> QED
    BY <1>1, <2>1, <2>2, <2>3, <2>4 DEF PositionInv
<1>9. CASE SeekRemaining
  <2>1. /\ reader.at = "remaining" /\ UNCHANGED <<m_pCache, m_readPos>>
        /\ \/ reader'.at = "idle"
           \/ /\ reader'.at = "again" /\ reader'.arg = reader.arg
              /\ Front(ring) >= reader.arg - m_seekPos
    BY <1>1, <1>9 DEF SeekRemaining, ReaderIdle, position
  <2>2. m_seekPos <= reader.arg /\ m_readPos = m_seekPos /\ ring.m_cur = m_seekPos
    BY <1>1, <2>1 DEF PositionInv
  <2>3. ring' = ring
    BY <2>1 DEF ring
  <2>4. m_seekPos \in Nat /\ ring.m_end \in Nat /\ ring.m_cur \in Nat
    BY <1>1, Types
  <2>5. CASE reader'.at = "idle"
    BY <2>1, <2>2, <2>3, <2>5 DEF PositionInv
  <2>6. CASE reader'.at = "again" /\ reader'.arg = reader.arg
             /\ Front(ring) >= reader.arg - m_seekPos
    <3>1. ring.m_cur <= reader.arg /\ reader.arg <= ring.m_end
      BY <1>1, <2>2, <2>4, <2>6 DEF Front
    <3> QED
      BY <2>3, <2>6, <3>1 DEF PositionInv
  <2> QED
    BY <2>1, <2>5, <2>6
<1>10. CASE SeekAgain
  <2>1. /\ reader.at = "again" /\ reader'.arg = reader.arg
        /\ reader'.at \in {"againWait", "ended"}
    BY <1>1, <1>10 DEF SeekAgain
  <2>2. /\ ring.m_cur <= reader.arg /\ reader.arg <= ring.m_end
        /\ ring.m_beg <= ring.m_cur
    BY <1>1, <2>1 DEF PositionInv, Rings, Sane, RingBounds
  <2>3. IsCachedPosition(ring, reader.arg)
    BY <1>1, <2>2, Types DEF IsCachedPosition
  <2>4. /\ SeekTo(ring, reader.arg).m_cur = reader.arg
        /\ SeekWaiting(ring).m_cur = ring.m_end
    BY <1>1, <2>3, SeekKeeps
  <2>5. SeekWaits(ring, reader.arg) => ring.m_end = reader.arg
    BY <1>1, <2>2, Types DEF SeekWaits
  <2>6. \/ BecomesRing(SeekWaiting(ring)) /\ SeekWaits(ring, reader.arg)
        \/ BecomesRing(SeekTo(ring, reader.arg))
    BY <1>10, <2>3 DEF SeekAgain, SeekRefused, BecomesRing, ring
  <2>7. ring'.m_cur = reader.arg
    BY <1>1, <2>4, <2>5, <2>6, AnswerFrame
  <2> QED
    BY <2>1, <2>7 DEF PositionInv
<1>11. CASE SeekAgainWaited
  <2>1. /\ reader.at = "againWait" /\ reader'.arg = reader.arg /\ reader'.at = "ended"
        /\ BecomesRing(SeekTo(ring, reader.arg))
    BY <1>1, <1>11 DEF SeekAgainWaited, BecomesRing, ring
  <2>2. ring.m_cur = reader.arg /\ ring.m_beg <= ring.m_cur /\ ring.m_cur <= ring.m_end
    BY <1>1, <2>1 DEF PositionInv, Rings, Sane, RingBounds
  <2>3. IsCachedPosition(ring, reader.arg)
    BY <1>1, <2>2, Types DEF IsCachedPosition
  <2>4. ring'.m_cur = reader.arg
    BY <1>1, <2>1, <2>3, AnswerFrame, SeekKeeps
  <2> QED
    BY <2>1, <2>4 DEF PositionInv
<1>12. CASE SeekReturn
  <2>1. /\ reader.at = "ended" /\ reader'.at = "idle" /\ m_readPos' = reader.arg
        /\ ring' = ring
    BY <1>12 DEF SeekReturn, ReaderIdle, ring
  <2> QED
    BY <1>1, <2>1 DEF PositionInv
<1>13. CASE CloseCall \/ CloseWakes \/ CloseStops \/ Closed
  <2>1. reader'.at \in Closing
    BY <1>1, <1>13 DEF CloseCall, CloseWakes, CloseStops, Closed, Closing
  <2> QED
    BY <2>1 DEF PositionInv, Closing
<1> QED
  BY <1>2, <1>3, <1>6, <1>7, <1>8, <1>9, <1>10, <1>11, <1>12, <1>13
     DEF ReaderCalls, ReaderStep

-----------------------------------------------------------------------------
(* Steps of Process.                                                       *)

\* A write puts the chunk where the ring ends.
LEMMA WriteStep ==
  ASSUME IInv, Write
  PROVE  LET len == process.iRead - process.iTotalWrite
             n   == WriteLength(ring, len)
         IN  /\ RingsKept /\ ring'.m_cur = ring.m_cur /\ ring'.m_end = ring.m_end + n
             /\ ring'.m_bEndOfInput = ring.m_bEndOfInput
             /\ len \in Nat /\ n \in Nat /\ n <= len
             /\ ring'.m_beg = IF (ring.m_end + n) - ring.m_beg > m_size
                                THEN (ring.m_end + n) - m_size ELSE ring.m_beg
<1> DEFINE first == process.first + process.iTotalWrite
           len   == process.iRead - process.iTotalWrite
           n     == WriteLength(ring, len)
           c     == WriteToCache(ring, first, len)
<1>1. TypeOK /\ Rings /\ ChunkInv /\ SourceInv
  BY DEF IInv
<1>2. first \in Nat /\ len \in Nat /\ process.at = "write"
  BY <1>1, Types DEF ChunkInv, Write
<1>3. Full => first = ring.m_end
  BY <1>1, <1>2, Types DEF ChunkInv, SourceInv
<1>4. BecomesRing(c)
  BY DEF Write, BecomesRing, ring
<1>5. ring \in Ring /\ RingBounds(ring) /\ Full \in BOOLEAN /\ Sane(ring, Full)
  BY <1>1, Types DEF Rings, Sane
<1> HIDE DEF first, len, n, c
<1>6. Sane(c, Full)
  BY <1>2, <1>3, <1>5, WriteRing DEF c
<1>7. RingsKept /\ ring' = c
  BY <1>1, <1>4, <1>6, RingBecomes
<1>8. /\ c.m_cur = ring.m_cur /\ c.m_end = ring.m_end + n
      /\ c.m_bEndOfInput = ring.m_bEndOfInput
      /\ c.m_beg = IF (ring.m_end + n) - ring.m_beg > m_size
                     THEN (ring.m_end + n) - m_size ELSE ring.m_beg
  BY <1>2, <1>5, WriteFields DEF c, n
<1>9. n \in Nat /\ n <= len
  BY <1>2, <1>5, WriteBounds DEF n
<1> QED
  BY <1>2, <1>7, <1>8, <1>9 DEF len, n

\* A seek that is carried out leaves the reader, the ring's end and the source
\* where the assertion of Process wants them.
LEMMA HandleSeekStep ==
  ASSUME IInv, HandleSeek
  PROVE  /\ m_pCache' \in Cache /\ m_pCache'.double = m_pCache.double
         /\ Sane(ring', Full) /\ (old' # NULL => Sane(old', Full))
         /\ ~ m_pCache'.double => old' = NULL
         /\ old' # NULL => ~ old'.m_bEndOfInput /\ old'.m_end <= m_fileSize
         /\ ~ ring'.m_bEndOfInput
         /\ ring'.m_cur = m_seekPos /\ ring'.m_end = CacheMaxPos
         /\ CacheMaxPos \in 0 .. m_fileSize
<1>1. /\ TypeOK /\ Rings /\ InputInv /\ ChunkInv /\ process.at = "poll"
      /\ m_pCache' = ResetCache(m_pCache, m_seekPos)
  BY DEF IInv, HandleSeek
<1>2. m_pCache \in Cache /\ m_seekPos \in Nat /\ Full \in BOOLEAN
  BY <1>1, Types
<1>3. ~ ring.m_bEndOfInput /\ (old # NULL => ~ old.m_bEndOfInput /\ old.m_end <= m_fileSize)
  BY <1>1 DEF InputInv
<1>4. /\ m_pCache' \in Cache /\ m_pCache'.double = m_pCache.double
      /\ Sane(ring', Full) /\ (old' # NULL => Sane(old', Full))
      /\ ~ m_pCache'.double => old' = NULL
      /\ ring'.m_cur = m_seekPos /\ ring'.m_end = CacheMaxPos
      /\ ~ ring'.m_bEndOfInput
      /\ old' = old \/ old' = ring
  BY <1>1, <1>2, <1>3, ResetRings DEF Rings, InputInv, ring, old, CacheMaxPos
<1>5. ring.m_end \in Nat /\ ring.m_end <= m_fileSize
  BY <1>1, Types DEF ChunkInv
<1>6. old # NULL => old.m_end \in Nat
  BY <1>1, RingFields DEF Rings, Sane
<1>7. CacheMaxPos \in 0 .. m_fileSize
  BY <1>1, <1>3, <1>5, <1>6, Types
     DEF CacheMaxPos, EndPosIfSeekTo, CachedDataEndPosIfSeekTo, Larger, ring, old
<1> QED
  BY <1>3, <1>4, <1>5, <1>7

\* What every other step of Process leaves to the reader.
ProcessFrame ==
  /\ RingsKept
  /\ ring'.m_cur = ring.m_cur /\ ring'.m_end >= ring.m_end
  /\ UNCHANGED <<reader, m_readPos, m_seekPos>>
  /\ Full' => Full

LEMMA ProcessFrames ==
  ASSUME IInv, ProcessStep, ~ HandleSeek
  PROVE  ProcessFrame
<1>1. TypeOK /\ Rings /\ ring.m_end \in Nat
  BY Types DEF IInv
<1>2. CASE \/ Start \/ LoopTop \/ NoSeek \/ HandleSeekFailed \/ CheckSpace \/ SourceRead
           \/ SourceRetry \/ EofStopped \/ WriteStopped
  <2>1. /\ UNCHANGED m_pCache
        /\ UNCHANGED <<reader, m_readPos, m_seekPos>>
        /\ sourceFailed' = sourceFailed \/ sourceFailed' = sourceFailed \cup {"seek"}
    BY <1>2 DEF Start, LoopTop, NoSeek, HandleSeekFailed, CheckSpace, SourceRead,
       SourceRetry, EofStopped, WriteStopped, position
  <2>2. Full' => Full
    BY <2>1 DEF Full
  <2>3. RingsKept /\ ring' = ring
    BY <1>1, <2>1, RingsSame
  <2> QED
    BY <1>1, <2>1, <2>2, <2>3 DEF ProcessFrame
<1>3. CASE SourceEnd \/ EofSeek \/ OnExit
  <2>1. /\ BecomesRing(EndOfInput(ring)) \/ BecomesRing(ClearEndOfInput(ring))
        /\ UNCHANGED <<reader, m_readPos, m_seekPos>>
        /\ "seek" \in sourceFailed => "seek" \in sourceFailed'
    BY <1>3 DEF SourceEnd, EofSeek, OnExit, position, BecomesRing, ring
  <2>2. Full' => Full
    BY <2>1 DEF Full
  <2>3. /\ Sane(EndOfInput(ring), Full) /\ Sane(ClearEndOfInput(ring), Full)
        /\ EndOfInput(ring).m_cur = ring.m_cur /\ EndOfInput(ring).m_end = ring.m_end
        /\ ClearEndOfInput(ring).m_cur = ring.m_cur
        /\ ClearEndOfInput(ring).m_end = ring.m_end
    BY <1>1, Types, FlagOperators DEF Rings
  <2>4. RingsKept /\ (ring' = EndOfInput(ring) \/ ring' = ClearEndOfInput(ring))
    BY <1>1, <2>1, <2>3, RingBecomes
  <2> QED
    BY <1>1, <2>1, <2>2, <2>3, <2>4 DEF ProcessFrame
<1>4. CASE Write
  <2>1. /\ UNCHANGED <<reader, m_readPos, m_seekPos>> /\ UNCHANGED sourceFailed
    BY <1>4 DEF Write
  <2> QED
    BY <1>1, <1>4, <2>1, WriteStep DEF ProcessFrame, Full
<1> QED
  BY <1>2, <1>3, <1>4 DEF ProcessStep

\* After a step of Process the rings still hold what they should.
LEMMA ProcessRings ==
  ASSUME IInv, ProcessStep
  PROVE  Rings' /\ m_pCache' \in Cache
<1>1. CASE HandleSeek
  <2>1. Full' => Full
    BY <1>1 DEF HandleSeek, Full
  <2> QED
    BY <1>1, <2>1, HandleSeekStep DEF Rings, Sane
<1>2. CASE ~ HandleSeek
  <2>1. ProcessFrame
    BY <1>2, ProcessFrames
  <2> QED
    BY <2>1 DEF ProcessFrame, RingsKept, Rings, Sane
<1> QED
  BY <1>1, <1>2

LEMMA ProcessPositions ==
  ASSUME IInv, ProcessStep
  PROVE  PositionInv'
<1> SUFFICES ASSUME Sound' PROVE PositionInv'
  BY DEF PositionInv
<1>1. TypeOK /\ PositionInv /\ EventInv
  BY DEF IInv
<1>2. CASE HandleSeek
  <2>1. /\ m_seekEvent /\ process.at = "poll" /\ m_readPos' = m_seekPos
        /\ UNCHANGED <<m_seekPos, reader, m_bStop, sourceFailed>>
    BY <1>2 DEF HandleSeek
  <2>2. ring'.m_cur = m_seekPos
    BY <1>2, HandleSeekStep
  <2>3. reader.at = "requested" /\ Sound
    BY <1>1, <2>1 DEF EventInv, Sound
  <2> QED
    BY <1>1, <2>1, <2>2, <2>3 DEF PositionInv
<1>3. CASE ~ HandleSeek
  <2>1. ProcessFrame
    BY <1>3, ProcessFrames
  <2>2. ~ HandleSeekFailed /\ ~ OnExit
    BY DEF HandleSeekFailed, OnExit, Sound
  <2>3. m_bStop' = m_bStop /\ m_seekEnded' = m_seekEnded
    BY <1>3, <2>2 DEF ProcessStep, Start, LoopTop, NoSeek, CheckSpace, SourceRead,
       SourceRetry, SourceEnd, EofSeek, EofStopped, WriteStopped, Write, events
  <2>4. Sound
    BY <2>1, <2>3 DEF ProcessFrame, Full, Sound
  <2>5. /\ reader' = reader /\ m_readPos' = m_readPos /\ m_seekPos' = m_seekPos
        /\ ring'.m_cur = ring.m_cur /\ ring'.m_end >= ring.m_end
        /\ ring.m_end \in Nat /\ ring'.m_end \in Nat /\ reader.arg \in Nat
    BY <1>1, <2>1, Types, RingFields DEF ProcessFrame, RingsKept, Sane
  <2> QED
    BY <1>1, <2>3, <2>4, <2>5 DEF PositionInv
<1> QED
  BY <1>2, <1>3

LEMMA ProcessTypes ==
  ASSUME IInv, ProcessStep
  PROVE  TypeOK'
<1> DEFINE Places == [at : ProcessAt, first : 0 .. m_fileSize, iRead : 0 .. m_chunkSize,
                      iTotalWrite : 0 .. m_chunkSize]
<1>1. TypeOK /\ m_pCache' \in Cache /\ m_fileSize \in Nat /\ m_chunkSize \in Nat
  BY ProcessRings, Types DEF IInv
<1>2. /\ m_seekPossible' \in BOOLEAN /\ m_seekEvent' \in BOOLEAN
      /\ m_seekEnded' \in BOOLEAN /\ m_bStop' \in BOOLEAN /\ m_StopEvent' \in BOOLEAN
  BY <1>1 DEF TypeOK, ProcessStep, Start, LoopTop, NoSeek, HandleSeek, HandleSeekFailed,
     CheckSpace, SourceRead, SourceRetry, SourceEnd, EofSeek, EofStopped, WriteStopped,
     Write, OnExit, SeekEventSeen, events, position
<1>3. reader' = reader /\ m_seekPos' = m_seekPos
  BY DEF ProcessStep, Start, LoopTop, NoSeek, HandleSeek, HandleSeekFailed,
     CheckSpace, SourceRead, SourceRetry, SourceEnd, EofSeek, EofStopped, WriteStopped,
     Write, OnExit, position
<1>4. m_readPos' \in Nat
  BY <1>1, Types DEF ProcessStep, Start, LoopTop, NoSeek, HandleSeek, HandleSeekFailed,
     CheckSpace, SourceRead, SourceRetry, SourceEnd, EofSeek, EofStopped, WriteStopped,
     Write, OnExit, position
<1>5. sourceFailed' \subseteq {"seek", "read"}
  BY <1>1 DEF TypeOK, ProcessStep, Start, LoopTop, NoSeek, HandleSeek, HandleSeekFailed,
     CheckSpace, SourceRead, SourceRetry, SourceEnd, EofSeek, EofStopped, WriteStopped,
     Write, OnExit, position
<1>6. ASSUME NEW at \in ProcessAt, Goto(at) PROVE process' \in Places
  BY <1>1, <1>6 DEF Goto, ProcessIdle
<1>7. /\ "top" \in ProcessAt /\ "exit" \in ProcessAt /\ "poll" \in ProcessAt
      /\ "space" \in ProcessAt /\ "source" \in ProcessAt /\ "eof" \in ProcessAt
      /\ "done" \in ProcessAt /\ "write" \in ProcessAt
  BY DEF ProcessAt
<1>8. CASE \/ Start \/ LoopTop \/ NoSeek \/ HandleSeekFailed \/ CheckSpace
           \/ SourceRetry \/ SourceEnd \/ EofSeek \/ EofStopped \/ OnExit
  <2>1. /\ \E at \in ProcessAt : Goto(at)
        /\ m_writePos' = m_writePos /\ sourcePos' = sourcePos
    <3> HIDE DEF Goto, ProcessAt
    <3> QED
      BY <1>7, <1>8 DEF Start, LoopTop, NoSeek, HandleSeekFailed, CheckSpace,
         SourceRetry, SourceEnd, EofSeek, EofStopped, OnExit, position
  <2> QED
    BY <1>1, <1>2, <1>3, <1>4, <1>5, <1>6, <2>1 DEF TypeOK
<1>9. CASE HandleSeek
  <2>1. ring'.m_end \in 0 .. m_fileSize /\ CacheMaxPos \in 0 .. m_fileSize
    BY <1>9, HandleSeekStep
  <2>2. /\ m_writePos' \in 0 .. m_fileSize /\ sourcePos' \in 0 .. m_fileSize
        /\ Goto("space")
    BY <1>1, <1>9, <2>1 DEF HandleSeek, SourceSeek, TypeOK, ring
  <2> QED
    BY <1>1, <1>2, <1>3, <1>4, <1>5, <1>6, <1>7, <2>2 DEF TypeOK
<1>10. CASE SourceRead
  <2>1. PICK n \in 1 .. Smaller(MaxSourceRead, m_fileSize - sourcePos) :
          /\ process' = [at |-> "write", first |-> sourcePos, iRead |-> n,
                         iTotalWrite |-> 0]
          /\ sourcePos' = sourcePos + n
    BY <1>10 DEF SourceRead
  <2>2. n \in Nat /\ n <= m_chunkSize /\ sourcePos + n <= m_fileSize /\ sourcePos \in Nat
    BY <1>1, Types DEF Smaller, MaxSourceRead
  <2>3. sourcePos' \in 0 .. m_fileSize /\ m_writePos' = m_writePos
    BY <1>1, <1>10, <2>1, <2>2 DEF SourceRead
  <2>4. process' \in Places
    BY <1>1, <1>7, <2>1, <2>2, Types
  <2> QED
    BY <1>1, <1>2, <1>3, <1>4, <1>5, <2>3, <2>4 DEF TypeOK
<1>11. CASE WriteStopped
  <2>1. /\ m_writePos' = m_writePos + process.iTotalWrite /\ sourcePos' = sourcePos
        /\ Goto("top")
    BY <1>11 DEF WriteStopped
  <2>2. m_writePos' \in 0 .. m_fileSize
    BY <1>1, <2>1, Types DEF IInv, ChunkInv
  <2> QED
    BY <1>1, <1>2, <1>3, <1>4, <1>5, <1>6, <1>7, <2>1, <2>2 DEF TypeOK
<1>12. CASE Write
  <2> DEFINE len   == process.iRead - process.iTotalWrite
             total == process.iTotalWrite + WriteLength(ring, len)
  <2>1. /\ sourcePos' = sourcePos
        /\ \/ Goto("top") /\ m_writePos' = m_writePos + total
           \/ process' = [process EXCEPT !.iTotalWrite = total] /\ m_writePos' = m_writePos
    BY <1>12 DEF Write
  <2>2. total \in Nat /\ total <= process.iRead
    BY <1>1, <1>12, WriteStep, Types
  <2> HIDE DEF total
  <2>3. /\ m_writePos + total \in 0 .. m_fileSize /\ total \in 0 .. m_chunkSize
        /\ m_writePos \in 0 .. m_fileSize /\ sourcePos \in 0 .. m_fileSize
        /\ process \in Places
    BY <1>1, <2>2, Types DEF IInv, ChunkInv, TypeOK
  <2>4. [process EXCEPT !.iTotalWrite = total] \in Places
    BY <2>3
  <2> HIDE DEF Places
  <2>5. /\ m_writePos' \in 0 .. m_fileSize /\ sourcePos' \in 0 .. m_fileSize
        /\ process' \in Places
    BY <1>6, <1>7, <2>1, <2>3, <2>4
  <2> QED
    BY <1>1, <1>2, <1>3, <1>4, <1>5, <2>5 DEF TypeOK, Places
<1> QED
  BY <1>8, <1>9, <1>10, <1>11, <1>12 DEF ProcessStep

\* Where a step of Process that has no chunk in hand leaves it.
LEMMA GotoFields ==
  ASSUME NEW at, Goto(at)
  PROVE  process'.at = at /\ process'.iRead = 0 /\ process'.iTotalWrite = 0
  BY DEF Goto, ProcessIdle

LEMMA ProcessChunk ==
  ASSUME IInv, ProcessStep
  PROVE  ChunkInv'
<1>1. TypeOK /\ ChunkInv
  BY DEF IInv
<1>2. CASE \/ Start \/ LoopTop \/ NoSeek \/ HandleSeekFailed \/ CheckSpace
           \/ SourceRetry \/ SourceEnd \/ EofSeek \/ EofStopped \/ OnExit
  <2>1. /\ \E at : Goto(at) /\ at # "write"
        /\ m_writePos' = m_writePos /\ process.at # "write"
    <3> HIDE DEF Goto
    <3> QED
      BY <1>2 DEF Start, LoopTop, NoSeek, HandleSeekFailed, CheckSpace,
         SourceRetry, SourceEnd, EofSeek, EofStopped, OnExit, position
  <2>2. /\ process'.at # "write" /\ process'.iRead = 0 /\ process'.iTotalWrite = 0
    BY <2>1, GotoFields
  <2>3. \/ m_pCache' = m_pCache \/ BecomesRing(EndOfInput(ring))
        \/ BecomesRing(ClearEndOfInput(ring))
    BY <1>2 DEF Start, LoopTop, NoSeek, HandleSeekFailed, CheckSpace, SourceRetry,
       SourceEnd, EofSeek, EofStopped, OnExit, BecomesRing, ring
  <2>4. ring'.m_end = ring.m_end
    <3>1. /\ Sane(EndOfInput(ring), Full) /\ Sane(ClearEndOfInput(ring), Full)
          /\ EndOfInput(ring).m_end = ring.m_end
          /\ ClearEndOfInput(ring).m_end = ring.m_end
      BY <1>1, Types, FlagOperators DEF IInv, Rings
    <3> QED
      BY <2>3, <3>1, RingBecomes DEF IInv, ring
  <2> QED
    BY <1>1, <2>1, <2>2, <2>4, Types DEF ChunkInv
<1>3. CASE HandleSeek
  <2>1. Goto("space") /\ m_writePos' = ring'.m_end
    BY <1>3 DEF HandleSeek, ring
  <2>2. ring'.m_end \in 0 .. m_fileSize
    BY <1>3, HandleSeekStep
  <2> QED
    BY <1>1, <2>1, <2>2, GotoFields, Types DEF ChunkInv
<1>4. CASE SourceRead
  <2>1. PICK n \in 1 .. Smaller(MaxSourceRead, m_fileSize - sourcePos) :
          process' = [at |-> "write", first |-> sourcePos, iRead |-> n,
                      iTotalWrite |-> 0]
    BY <1>4 DEF SourceRead
  <2>2. /\ n \in Nat /\ m_writePos + n <= m_fileSize
        /\ process.iRead = 0 /\ process.iTotalWrite = 0
    BY <1>1, <1>4, Types DEF Smaller, MaxSourceRead, ChunkInv, SourceRead
  <2>3. m_writePos' = m_writePos /\ ring' = ring
    BY <1>4 DEF SourceRead, ring
  <2> QED
    BY <1>1, <2>1, <2>2, <2>3 DEF ChunkInv
<1>5. CASE WriteStopped
  <2>1. /\ m_writePos' = m_writePos + process.iTotalWrite /\ ring' = ring /\ Goto("top")
    BY <1>5 DEF WriteStopped, ring
  <2> QED
    BY <1>1, <2>1, GotoFields, Types DEF ChunkInv
<1>6. CASE Write
  <2> DEFINE len   == process.iRead - process.iTotalWrite
             total == process.iTotalWrite + WriteLength(ring, len)
  <2>1. \/ Goto("top") /\ m_writePos' = m_writePos + total
        \/ process' = [process EXCEPT !.iTotalWrite = total] /\ m_writePos' = m_writePos
    BY <1>6 DEF Write
  <2>2. /\ total \in Nat /\ total <= process.iRead
        /\ ring'.m_end = m_writePos + total
    BY <1>1, <1>6, WriteStep, Types DEF ChunkInv
  <2> HIDE DEF total
  <2>3. CASE Goto("top") /\ m_writePos' = m_writePos + total
    BY <1>1, <2>2, <2>3, GotoFields, Types DEF ChunkInv
  <2>4. CASE process' = [process EXCEPT !.iTotalWrite = total] /\ m_writePos' = m_writePos
    <3>1. process'.iTotalWrite = total /\ process'.iRead = process.iRead
          /\ process'.at = process.at
      BY <1>1, <2>4 DEF TypeOK
    <3> QED
      BY <1>1, <2>2, <2>4, <3>1 DEF ChunkInv
  <2> QED
    BY <2>1, <2>3, <2>4
<1> QED
  BY <1>2, <1>3, <1>4, <1>5, <1>6 DEF ProcessStep

LEMMA ProcessInput ==
  ASSUME IInv, ProcessStep
  PROVE  InputInv'
<1>1. TypeOK /\ InputInv /\ Rings
  BY DEF IInv
<1>2. CASE Start \/ LoopTop \/ NoSeek \/ HandleSeekFailed \/ CheckSpace \/ SourceRetry
  <2>1. /\ UNCHANGED m_pCache /\ UNCHANGED <<m_bStop, m_StopEvent>>
        /\ process.at \notin {"eof", "exit", "done"}
        /\ \E at : Goto(at) /\ at # "eof"
    <3> HIDE DEF Goto
    <3> QED
      BY <1>2 DEF Start, LoopTop, NoSeek, HandleSeekFailed, CheckSpace, SourceRetry,
         events
  <2>2. process'.at # "eof" /\ ring' = ring /\ old' = old
    BY <2>1, GotoFields DEF ring, old
  <2> QED
    BY <1>1, <2>1, <2>2 DEF InputInv
<1>3. CASE SourceRead \/ WriteStopped
  <2>1. /\ UNCHANGED m_pCache /\ UNCHANGED <<m_bStop, m_StopEvent>>
        /\ process.at \notin {"eof", "exit", "done"} /\ process'.at # "eof"
    BY <1>3, GotoFields DEF SourceRead, WriteStopped, events
  <2>2. ring' = ring /\ old' = old
    BY <2>1 DEF ring, old
  <2> QED
    BY <1>1, <2>1, <2>2 DEF InputInv
<1>4. CASE HandleSeek
  <2>1. /\ UNCHANGED <<m_bStop, m_StopEvent>> /\ process'.at # "eof"
    BY <1>4, GotoFields DEF HandleSeek
  <2> QED
    BY <1>1, <1>4, <2>1, HandleSeekStep DEF InputInv
<1>5. CASE Write
  <2>1. /\ UNCHANGED <<m_bStop, m_StopEvent>> /\ process.at = "write"
        /\ \/ Goto("top")
           \/ process' = [process EXCEPT !.iTotalWrite = process.iTotalWrite
                            + WriteLength(ring, process.iRead - process.iTotalWrite)]
    BY <1>5 DEF Write, events
  <2>2. process'.at # "eof"
    BY <1>1, <2>1, GotoFields DEF TypeOK
  <2>3. RingsKept /\ ring'.m_bEndOfInput = ring.m_bEndOfInput
    BY <1>5, WriteStep
  <2> QED
    BY <1>1, <2>1, <2>2, <2>3 DEF InputInv, RingsKept
<1>6. CASE EofStopped
  <2>1. /\ UNCHANGED m_pCache /\ UNCHANGED <<m_bStop, m_StopEvent>>
        /\ m_StopEvent /\ process'.at = "exit"
    BY <1>6, GotoFields DEF EofStopped, events
  <2>2. ring' = ring /\ old' = old
    BY <2>1 DEF ring, old
  <2> QED
    BY <1>1, <2>1, <2>2 DEF InputInv
<1>7. ASSUME BecomesRing(EndOfInput(ring)) \/ BecomesRing(ClearEndOfInput(ring))
      PROVE  RingsKept
  BY <1>1, <1>7, Types, FlagOperators, RingBecomes DEF Rings
<1>8. CASE SourceEnd
  <2>1. /\ BecomesRing(EndOfInput(ring)) /\ UNCHANGED <<m_bStop, m_StopEvent, m_writePos>>
        /\ process'.at = "eof"
        /\ m_writePos < m_fileSize => "read" \in sourceFailed'
    BY <1>8, GotoFields DEF SourceEnd, BecomesRing, ring, events, position
  <2>2. m_writePos = m_fileSize \/ "read" \in sourceFailed'
    BY <1>1, <2>1, Types
  <2> QED
    BY <1>1, <1>7, <2>1, <2>2 DEF InputInv, RingsKept
<1>9. CASE EofSeek
  <2>1. /\ BecomesRing(ClearEndOfInput(ring)) /\ UNCHANGED <<m_bStop, m_StopEvent>>
        /\ process'.at = "top"
    BY <1>9, GotoFields DEF EofSeek, BecomesRing, ring
  <2>2. ~ ring'.m_bEndOfInput
    BY <1>1, <2>1, Types, FlagOperators, RingBecomes DEF Rings
  <2> QED
    BY <1>1, <1>7, <2>1, <2>2 DEF InputInv, RingsKept
<1>10. CASE OnExit
  <2>1. /\ BecomesRing(EndOfInput(ring)) /\ m_bStop'
        /\ process'.at = "done"
    BY <1>10, GotoFields DEF OnExit, BecomesRing, ring
  <2> QED
    BY <1>1, <1>7, <2>1 DEF InputInv, RingsKept
<1> QED
  BY <1>2, <1>3, <1>4, <1>5, <1>6, <1>8, <1>9, <1>10 DEF ProcessStep

LEMMA ProcessSource ==
  ASSUME IInv, ProcessStep
  PROVE  SourceInv'
<1> SUFFICES ASSUME Full' PROVE SourceInv'
  BY DEF SourceInv
<1>1. TypeOK /\ ChunkInv /\ SourceInv /\ m_bStop \in BOOLEAN /\ m_seekEvent \in BOOLEAN
  BY Types DEF IInv
<1>2. CASE Start \/ LoopTop
  <2>1. /\ Full /\ UNCHANGED <<m_writePos, sourcePos, m_seekEvent, m_bStop>>
        /\ process.at \in {"start", "top"} /\ (Goto("top") \/ Goto("exit") \/ Goto("poll"))
        /\ Goto("poll") => ~ m_bStop
    BY <1>2 DEF Start, LoopTop, position, events, Full, Goto, ProcessIdle
  <2>2. /\ process'.at \in {"top", "exit", "poll"} /\ (process'.at = "poll" => ~ m_bStop)
    BY <2>1, GotoFields DEF Goto, ProcessIdle
  <2> QED
    BY <1>1, <2>1, <2>2 DEF SourceInv, InStep
<1>3. CASE NoSeek
  <2>1. /\ Full /\ UNCHANGED <<m_writePos, sourcePos>> /\ process.at = "poll"
        /\ ~ m_seekEvent /\ process'.at = "space"
    BY <1>3, GotoFields DEF NoSeek, position, Full
  <2> QED
    BY <1>1, <2>1 DEF SourceInv, InStep
<1>4. CASE HandleSeek
  <2>1. /\ sourcePos' = SourceSeek /\ m_writePos' = ring'.m_end /\ process'.at = "space"
    BY <1>4, GotoFields DEF HandleSeek, ring
  <2>2. ring'.m_end = CacheMaxPos
    BY <1>4, HandleSeekStep
  <2>3. InStep'
    BY <2>1, <2>2 DEF InStep, SourceSeek
  <2> QED
    BY <2>1, <2>3 DEF SourceInv
<1>5. CASE HandleSeekFailed
  BY <1>5 DEF HandleSeekFailed, Full
<1>6. CASE CheckSpace \/ SourceRetry \/ SourceEnd \/ EofSeek \/ EofStopped
  <2>1. /\ Full /\ UNCHANGED <<m_writePos, sourcePos>>
        /\ process.at \in {"space", "source", "eof"}
        /\ \E at \in {"top", "source", "eof", "exit"} : Goto(at)
    <3> HIDE DEF Goto
    <3> QED
      BY <1>6 DEF CheckSpace, SourceRetry, SourceEnd, EofSeek, EofStopped, position, Full
  <2>2. process'.at \in {"top", "source", "eof", "exit"}
    BY <2>1, GotoFields
  <2>3. InStep'
    BY <1>1, <2>1 DEF SourceInv, InStep
  <2> QED
    BY <2>2, <2>3 DEF SourceInv
<1>7. CASE SourceRead
  <2>1. PICK n \in 1 .. Smaller(MaxSourceRead, m_fileSize - sourcePos) :
          /\ process' = [at |-> "write", first |-> sourcePos, iRead |-> n,
                         iTotalWrite |-> 0]
          /\ sourcePos' = sourcePos + n
    BY <1>7 DEF SourceRead
  <2>2. Full /\ m_writePos' = m_writePos /\ process.at = "source"
    BY <1>7 DEF SourceRead, Full
  <2>3. m_writePos < m_fileSize
    BY <1>1, <2>1, Types DEF Smaller, MaxSourceRead
  <2>4. sourcePos = m_writePos
    BY <1>1, <2>2, <2>3, Types DEF SourceInv, InStep
  <2> QED
    BY <2>1, <2>2, <2>4 DEF SourceInv
<1>8. CASE WriteStopped
  <2>1. m_bStop /\ m_bStop' = m_bStop /\ process'.at = "top"
    BY <1>8, GotoFields DEF WriteStopped, events
  <2> QED
    BY <2>1 DEF SourceInv
<1>9. CASE Write
  <2> DEFINE len   == process.iRead - process.iTotalWrite
             total == process.iTotalWrite + WriteLength(ring, len)
  <2>1. /\ UNCHANGED <<sourcePos, m_seekEvent>> /\ Full /\ process.at = "write"
        /\ \/ /\ total = process.iRead \/ m_seekEvent
              /\ Goto("top") /\ m_writePos' = m_writePos + total
           \/ process' = [process EXCEPT !.iTotalWrite = total] /\ m_writePos' = m_writePos
    BY <1>9 DEF Write, events, Full
  <2> HIDE DEF total
  <2>2. process.first = m_writePos /\ process.first + process.iRead = sourcePos
    BY <1>1, <2>1 DEF SourceInv
  <2>3. CASE /\ total = process.iRead \/ m_seekEvent
             /\ Goto("top") /\ m_writePos' = m_writePos + total
    BY <2>1, <2>2, <2>3, GotoFields DEF SourceInv, InStep
  <2>4. CASE process' = [process EXCEPT !.iTotalWrite = total] /\ m_writePos' = m_writePos
    <3>1. /\ process'.at = "write" /\ process'.first = process.first
          /\ process'.iRead = process.iRead
      BY <1>1, <2>1, <2>4 DEF TypeOK
    <3> QED
      BY <2>1, <2>2, <2>4, <3>1 DEF SourceInv
  <2> QED
    BY <2>1, <2>3, <2>4
<1>10. CASE OnExit
  <2>1. process'.at = "done"
    BY <1>10, GotoFields DEF OnExit
  <2> QED
    BY <2>1 DEF SourceInv
<1> QED
  BY <1>2, <1>3, <1>4, <1>5, <1>6, <1>7, <1>8, <1>9, <1>10 DEF ProcessStep

LEMMA ProcessEvents ==
  ASSUME IInv, ProcessStep
  PROVE  EventInv'
<1>1. TypeOK /\ EventInv /\ m_seekEvent \in BOOLEAN
  BY Types DEF IInv
<1>2. CASE HandleSeek \/ HandleSeekFailed
  <2>1. /\ m_seekEvent /\ process.at = "poll" /\ ~ m_seekEvent' /\ UNCHANGED <<reader, m_bStop>>
        /\ process'.at = "space"
    BY <1>2, GotoFields DEF HandleSeek, HandleSeekFailed
  <2> QED
    BY <1>1, <2>1 DEF EventInv
<1>3. CASE OnExit
  <2>1. /\ m_bStop' /\ process'.at = "done"
    BY <1>3, GotoFields DEF OnExit
  <2> QED
    BY <2>1 DEF EventInv
<1>4. CASE \/ Start \/ LoopTop \/ NoSeek \/ CheckSpace \/ SourceRead \/ SourceRetry
           \/ SourceEnd \/ EofSeek \/ EofStopped \/ WriteStopped \/ Write
  <2>1. /\ UNCHANGED <<reader, m_bStop, m_seekEnded>> /\ process.at # "done"
        /\ m_seekEvent' = m_seekEvent \/ m_seekEvent' = (m_seekEvent /\ ~ m_bStop)
    BY <1>4 DEF Start, LoopTop, NoSeek, CheckSpace, SourceRead, SourceRetry,
       SourceEnd, EofSeek, EofStopped, WriteStopped, Write, SeekEventSeen, events
  <2>2. process'.at # "done"
    <3>1. CASE Start \/ LoopTop \/ NoSeek \/ CheckSpace \/ SourceRetry
               \/ SourceEnd \/ EofSeek \/ EofStopped \/ WriteStopped
      <4>1. \E at : Goto(at) /\ at # "done"
        <5> HIDE DEF Goto
        <5> QED
          BY <3>1 DEF Start, LoopTop, NoSeek, CheckSpace, SourceRetry, SourceEnd,
             EofSeek, EofStopped, WriteStopped
      <4> QED
        BY <4>1, GotoFields
    <3>2. CASE SourceRead
      BY <3>2 DEF SourceRead
    <3>3. CASE Write
      <4>1. /\ process.at = "write"
            /\ \/ Goto("top")
               \/ process' = [process EXCEPT !.iTotalWrite = process.iTotalWrite
                                + WriteLength(ring, process.iRead - process.iTotalWrite)]
        BY <3>3 DEF Write
      <4> QED
        BY <1>1, <4>1, GotoFields DEF TypeOK
    <3> QED
      BY <1>4, <3>1, <3>2, <3>3
  <2> QED
    BY <1>1, <2>1, <2>2 DEF EventInv
<1> QED
  BY <1>2, <1>3, <1>4 DEF ProcessStep

LEMMA StepInv == IInv /\ [Next]_vars => IInv'
<1> SUFFICES ASSUME IInv, [Next]_vars PROVE IInv'
  OBVIOUS
<1>1. CASE ReaderCalls \/ ReaderStep \/ ReadTimedOut
  BY <1>1, ReaderFrames, ReaderKeeps, ReaderTypes, ReaderEvents, ReaderPositions
     DEF IInv
<1>2. CASE ProcessStep
  BY <1>2, ProcessTypes, ProcessRings, ProcessInput, ProcessChunk, ProcessSource,
     ProcessEvents, ProcessPositions DEF IInv
<1>3. CASE UNCHANGED vars
  <2>1. /\ m_pCache' = m_pCache /\ m_readPos' = m_readPos /\ m_writePos' = m_writePos
        /\ m_seekPos' = m_seekPos /\ m_seekPossible' = m_seekPossible
        /\ sourcePos' = sourcePos /\ m_seekEvent' = m_seekEvent
        /\ m_seekEnded' = m_seekEnded /\ m_bStop' = m_bStop
        /\ m_StopEvent' = m_StopEvent /\ reader' = reader /\ process' = process
        /\ sourceFailed' = sourceFailed
    BY <1>3 DEF vars, position, events
  <2>2. ring' = ring /\ old' = old /\ (Full' <=> Full) /\ (Sound' <=> Sound)
    BY <2>1 DEF ring, old, Full, Sound
  <2>3. TypeOK' /\ InputInv' /\ ChunkInv' /\ SourceInv' /\ EventInv'
    BY <2>1, <2>2
       DEF IInv, TypeOK, InputInv, ChunkInv, SourceInv, InStep, EventInv
  <2>4. Rings' /\ PositionInv'
    BY <2>1, <2>2 DEF IInv, Rings, Sane, PositionInv
  <2> QED
    BY <2>3, <2>4 DEF IInv
<1> QED
  BY <1>1, <1>2, <1>3 DEF Next

LEMMA Invariance == Spec => []IInv
  BY InitInv, StepInv, PTL DEF Spec

-----------------------------------------------------------------------------
(* The theorems.                                                           *)

\* In every state both rings keep their positions in order and within their
\* size and hold the source's bytes, and the assertion of Process about the
\* end of the ring after a reset is met.
THEOREM CacheAlwaysIntact == Spec => []CacheIntact
<1>1. IInv => CacheIntact
  <2> SUFFICES ASSUME IInv PROVE CacheIntact
    OBVIOUS
  <2>1. TypeOK /\ Rings /\ InputInv
    BY DEF IInv
  <2>2. RingIntact
    BY <2>1 DEF RingIntact, Rings, Sane, Full, old
  <2>3. AssertionHolds
    <3> SUFFICES ASSUME process.at = "poll"
                 PROVE  ResetCache(m_pCache, m_seekPos).m_pCache.m_end = CacheMaxPos
      BY DEF AssertionHolds
    <3>1. m_pCache \in Cache /\ m_seekPos \in Nat /\ Full \in BOOLEAN
      BY <2>1, Types
    <3>2. ~ ring.m_bEndOfInput /\ (old # NULL => ~ old.m_bEndOfInput)
      BY <2>1 DEF InputInv
    <3> QED
      BY <2>1, <3>1, <3>2, ResetRings DEF Rings, InputInv, ring, old, CacheMaxPos
  <2> QED
    BY <2>1, <2>2, <2>3 DEF CacheIntact
<1> QED
  BY <1>1, Invariance, PTL

\* A Read gives the bytes of the source from the position the file reports on,
\* after any seeks, however they were served.
THEOREM ReadsGiveSource == Spec => ReadsSource
<1>1. IInv /\ [Next]_vars =>
        [ReadData /\ Sound =>
           \A i \in DOMAIN BytesRead(ring, reader.arg) :
             BytesRead(ring, reader.arg)[i] = m_readPos + i]_vars
  <2> SUFFICES ASSUME IInv, ReadData, Sound
               PROVE  \A i \in DOMAIN BytesRead(ring, reader.arg) :
                        BytesRead(ring, reader.arg)[i] = m_readPos + i
    OBVIOUS
  <2>1. m_readPos = ring.m_cur
    BY DEF IInv, PositionInv, ReadData
  <2>2. Sane(ring, Full) /\ Full \in BOOLEAN /\ Full /\ reader.arg \in Nat
    BY Types DEF IInv, Rings, Sound, Full
  <2>3. \A i \in DOMAIN BytesRead(ring, reader.arg) :
          BytesRead(ring, reader.arg)[i] = ring.m_cur + i
    BY <2>2, ReadRing
  <2> QED
    BY <2>1, <2>3
<1> QED
  BY <1>1, Invariance, PTL DEF Spec, ReadsSource

\* A Read that answers 0 without timing out does so at the end of the file.
THEOREM EofIsTheEnd == Spec => NoFalseEof
<1>1. IInv /\ [Next]_vars =>
        [(ReadNothing \/ ReadWaited) /\ reader'.at = "idle" /\ Sound
           /\ "read" \notin sourceFailed => m_readPos = m_fileSize]_vars
  <2> SUFFICES ASSUME IInv, ReadNothing \/ ReadWaited, reader'.at = "idle", Sound,
                      "read" \notin sourceFailed
               PROVE  m_readPos = m_fileSize
    OBVIOUS
  <2>1. TypeOK /\ Rings /\ InputInv /\ ChunkInv /\ PositionInv
    BY DEF IInv
  <2>2. /\ ring.m_cur \in Nat /\ ring.m_end \in Nat /\ ring.m_cur <= ring.m_end
        /\ ring.m_bEndOfInput \in BOOLEAN
        /\ reader \in [at : ReaderAt, arg : Nat]
    BY <2>1, Types DEF Rings, Sane, RingBounds
  <2>3. m_size \in Nat /\ m_size_back \in Nat /\ m_size_back < m_size
    BY RingAssumption
  <2>4. ring.m_end = ring.m_cur /\ ring.m_bEndOfInput
    <3>1. CASE ReadNothing
      BY <2>2, <3>1 DEF ReadNothing, Front
    <3>2. CASE ReadWaited
      <4>1. Front(ring) \in Nat /\ ~ Front(ring) > 0
        BY <2>2, <3>2 DEF ReadWaited, Front
      <4> QED
        BY <2>2, <2>3, <3>2, <4>1 DEF ReadWaited, WaitSatisfied, Smaller, Front
    <3> QED
      BY <3>1, <3>2
  <2>5. process.at = "eof" /\ m_writePos = m_fileSize
    BY <2>1, <2>4 DEF InputInv, Sound
  <2>6. process.iTotalWrite = 0
    BY <2>1, <2>5, Types DEF ChunkInv
  <2>7. m_readPos = ring.m_cur
    BY <2>1 DEF PositionInv, ReadNothing, ReadWaited
  <2> QED
    BY <2>1, <2>4, <2>5, <2>6, <2>7, Types DEF ChunkInv
<1> QED
  BY <1>1, Invariance, PTL DEF Spec, NoFalseEof

\* A write never takes from the reader the m_size_back bytes behind it.
THEOREM WritesKeepBack == Spec => BackBufferKept
<1>1. IInv /\ [Next]_vars =>
        [Write => \/ ring'.m_beg = ring.m_beg
                  \/ ring'.m_beg + m_size_back <= ring.m_cur]_vars
  <2> SUFFICES ASSUME IInv, Write
               PROVE  \/ ring'.m_beg = ring.m_beg
                      \/ ring'.m_beg + m_size_back <= ring.m_cur
    OBVIOUS
  <2> DEFINE len == process.iRead - process.iTotalWrite
             n   == WriteLength(ring, len)
  <2>1. /\ len \in Nat /\ n \in Nat
        /\ ring'.m_beg = IF (ring.m_end + n) - ring.m_beg > m_size
                           THEN (ring.m_end + n) - m_size ELSE ring.m_beg
    BY WriteStep
  <2>2. /\ ring \in Ring /\ RingBounds(ring)
        /\ ring.m_beg \in Nat /\ ring.m_cur \in Nat /\ ring.m_end \in Nat
    BY Types DEF IInv, Rings, Sane
  <2> HIDE DEF len
  <2>3. \/ ring.m_end + n - ring.m_beg <= m_size
        \/ ring.m_end + n - m_size + m_size_back <= ring.m_cur
    BY <2>1, <2>2, WriteBounds
  <2>4. m_size \in Nat /\ m_size_back \in Nat
    BY RingAssumption
  <2> HIDE DEF n
  <2> QED
    BY <2>1, <2>2, <2>3, <2>4
<1> QED
  BY <1>1, Invariance, PTL DEF Spec, BackBufferKept
=============================================================================
