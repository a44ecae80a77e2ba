---------------------------- MODULE CircularCache ----------------------------
(***************************************************************************)
(* The ring buffer of CCircularCache (filesystem/CircularCache.cpp), as    *)
(* operators on a record.  Each operator is one method under the ring's    *)
(* own m_sync.  Positions are positions of the source file; a cell of      *)
(* m_buf holds the position of the source byte that was copied there, so a *)
(* byte read at the wrong place is told from the right one.  A cell        *)
(* outside [m_beg, m_end) is Blank: the code leaves old bytes there, and   *)
(* none of its reads may return one.                                       *)
(***************************************************************************)
EXTENDS Naturals

CONSTANTS m_size,       \* bytes of the ring: front + back
          m_size_back,  \* bytes kept behind the read position
          SeekWindow,   \* the 100000 of Seek: how far ahead it waits for data
          Blank         \* a cell that holds nothing

ASSUME RingAssumption ==
         /\ m_size \in Nat \ {0} /\ m_size_back \in 0 .. (m_size - 1)
         /\ SeekWindow \in Nat   /\ Blank \notin Nat

Smaller(a, b) == IF a <= b THEN a ELSE b
Larger(a, b)  == IF a >= b THEN a ELSE b

Cell == 0 .. (m_size - 1)
Index(pos) == pos % m_size

Ring == [m_beg : Nat, m_cur : Nat, m_end : Nat,
         m_buf : [Cell -> Nat \cup {Blank}], m_bEndOfInput : BOOLEAN]

\* A ring emptied at a position of the source.
EmptyAt(pos) == [m_beg |-> pos, m_cur |-> pos, m_end |-> pos,
                 m_buf |-> [i \in Cell |-> Blank], m_bEndOfInput |-> FALSE]

Back(c)  == c.m_cur - c.m_beg
Front(c) == c.m_end - c.m_cur

IsCachedPosition(c, pos) == pos >= c.m_beg /\ pos <= c.m_end

CachedDataEndPosIfSeekTo(c, pos) ==
  IF IsCachedPosition(c, pos) THEN c.m_end ELSE pos

\* Mutant of Limit: the back buffer is not kept.
LimitNoBack(c) == m_size - Front(c)

(***************************************************************************)
(* How much may be written in front of the reader: all but what is unread  *)
(* and the m_size_back bytes it may still go back to.                      *)
(***************************************************************************)
Limit(c) == m_size - Smaller(Back(c), m_size_back) - Front(c)

GetMaxWriteSize(c, request) == Smaller(request, Limit(c))

\* WriteToCache: it stops at the limit and at the wrap of the buffer.
WriteLength(c, len) == Smaller(Smaller(len, Limit(c)), m_size - Index(c.m_end))

\* The source bytes first, first + 1, ... copied at m_end.
WriteToCache(c, first, len) ==
  LET n   == WriteLength(c, len)
      pos == Index(c.m_end)
      end == c.m_end + n
  IN  [c EXCEPT !.m_end = end,
                !.m_beg = IF end - @ > m_size THEN end - m_size ELSE @,
                !.m_buf = [i \in Cell |-> IF i >= pos /\ i < pos + n
                                            THEN first + (i - pos) ELSE @[i]]]

\* ReadFromCache: it stops at the wrap and at the end of the data.
ReadLength(c, len) == Smaller(len, Smaller(m_size - Index(c.m_cur), Front(c)))

BytesRead(c, len) ==
  [i \in 0 .. (ReadLength(c, len) - 1) |-> c.m_buf[Index(c.m_cur) + i]]

ReadFromCache(c, len) == [c EXCEPT !.m_cur = @ + ReadLength(c, len)]

(***************************************************************************)
(* WaitForData answers when it has the data, at the end of the input, or   *)
(* when its time is up; it never waits for more than the front buffer.     *)
(***************************************************************************)
WaitSatisfied(c, minimum) ==
  c.m_bEndOfInput \/ Front(c) >= Smaller(minimum, m_size - m_size_back)

(***************************************************************************)
(* Seek, in two critical sections: when the position lies a little ahead,  *)
(* everything becomes back buffer, and the lock is let go to wait for the  *)
(* data; then the position is taken if it is in the ring by now.           *)
(***************************************************************************)
SeekWaits(c, pos) == pos >= c.m_end /\ pos < c.m_end + SeekWindow
SeekWaiting(c)    == [c EXCEPT !.m_cur = c.m_end]
SeekTo(c, pos)    == IF IsCachedPosition(c, pos) THEN [c EXCEPT !.m_cur = pos] ELSE c

\* Mutant of Reset: a ring that has the position stays where it is.
ResetKeeping(c, pos) ==
  IF IsCachedPosition(c, pos) THEN c
    ELSE [EmptyAt(pos) EXCEPT !.m_bEndOfInput = c.m_bEndOfInput]

\* Reset keeps a ring that has the position, and empties any other.
Reset(c, pos) ==
  IF IsCachedPosition(c, pos)
    THEN [c EXCEPT !.m_cur = pos]
    ELSE [EmptyAt(pos) EXCEPT !.m_bEndOfInput = c.m_bEndOfInput]

\* Mutant of ClearEndOfInput: the flag stays.
KeepEndOfInput(c) == c

EndOfInput(c)      == [c EXCEPT !.m_bEndOfInput = TRUE]
ClearEndOfInput(c) == [c EXCEPT !.m_bEndOfInput = FALSE]
=============================================================================
