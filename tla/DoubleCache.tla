----------------------------- MODULE DoubleCache -----------------------------
(***************************************************************************)
(* CDoubleCache (filesystem/CacheStrategy.cpp): two rings for a file that  *)
(* is read at two places, of which the active one is read and written and  *)
(* the other keeps what it had.  A cache is a record: m_pCache the active  *)
(* ring, m_pCacheOld the other or NULL, and double, whether the file was   *)
(* opened with READ_MULTI_STREAM; without it CFileCache uses the one ring  *)
(* as it is, and so do these operators.                                    *)
(***************************************************************************)
EXTENDS CircularCache

CONSTANT NULL  \* there is no second ring (yet)

Cache == [m_pCache : Ring, m_pCacheOld : Ring \cup {NULL}, double : BOOLEAN]

OpenedCache(double) ==
  [m_pCache |-> EmptyAt(0), m_pCacheOld |-> NULL, double |-> double]

InOld(d, pos) == d.m_pCacheOld # NULL /\ IsCachedPosition(d.m_pCacheOld, pos)

\* The position of the source that a Reset to pos would go on from.
EndPosIfSeekTo(d, pos) ==
  LET ret == CachedDataEndPosIfSeekTo(d.m_pCache, pos)
  IN  IF d.m_pCacheOld = NULL THEN ret
      ELSE Larger(ret, CachedDataEndPosIfSeekTo(d.m_pCacheOld, pos))

\* Seek refuses what only the other ring has: the reader then asks for a swap.
SeekRefused(d, pos) == ~ IsCachedPosition(d.m_pCache, pos) /\ InOld(d, pos)

\* Mutant of StaysOnRing: which ring has more in front is not asked.
HasPosition(d, pos) == IsCachedPosition(d.m_pCache, pos)

(***************************************************************************)
(* Reset stays on the active ring when it has the position and as much of  *)
(* what follows as the other one; else the rings are swapped, the second   *)
(* one being made at the first swap.                                       *)
(***************************************************************************)
StaysOnRing(d, pos) ==
  /\ IsCachedPosition(d.m_pCache, pos)
  /\ InOld(d, pos) => d.m_pCache.m_end >= d.m_pCacheOld.m_end

ResetCache(d, pos) ==
  IF ~ d.double \/ StaysOnRing(d, pos)
    THEN [d EXCEPT !.m_pCache = Reset(@, pos)]
    ELSE LET other == IF d.m_pCacheOld = NULL THEN EmptyAt(0) ELSE d.m_pCacheOld
         IN [d EXCEPT !.m_pCacheOld = d.m_pCache, !.m_pCache = Reset(other, pos)]
=============================================================================
