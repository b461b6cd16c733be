--------------------------- MODULE PartitionRange ---------------------------
(***************************************************************************)
(* How wallet addresses are split over the workers of a job: addresses are *)
(* strings of Width digits (40 hexadecimal ones in the code), boundaries   *)
(* are computed as numbers, printed, and compared as strings.              *)
(***************************************************************************)
EXTENDS Integers, SequencesExt

CONSTANTS Base, Width

ASSUME BaseAssumption == Base \in Nat \ {0, 1} /\ Width \in Nat \ {0}

Address == [1 .. Width -> 0 .. Base - 1]
MinAddr == [i \in 1 .. Width |-> 0]
MaxAddr == [i \in 1 .. Width |-> Base - 1]

NumberOf(s) == FoldLeft(LAMBDA n, d : n * Base + d, 0, s)

\* Printed without leading zeros.
Printed(n) ==
  LET width == CHOOSE k \in 1 .. Width + 1 :
                 n < Base^k /\ (k = 1 \/ n >= Base^(k - 1))
  IN [i \in 1 .. width |-> (n \div Base^(width - i)) % Base]

\* The order of strings.
Before(s, t) ==
  \E i \in 1 .. Len(t) :
    /\ \A j \in 1 .. i - 1 : j <= Len(s) /\ s[j] = t[j]
    /\ i > Len(s) \/ s[i] < t[i]

\* The ends of the partitions 0 .. num - 1 of [minAddr, maxAddr); an end that is
\* not the last is a multiple of the size, counted from zero.
NewRange(minAddr, maxAddr, num) ==
  LET partSize == (NumberOf(maxAddr) - NumberOf(minAddr) + 1) \div num
  IN [start |-> minAddr,
      splits |-> [p \in 1 .. num |->
                    IF p = num THEN maxAddr ELSE Printed(partSize * p)]]

NewFullRange(num) == NewRange(MinAddr, MaxAddr, num)

PartitionExtents(r, p) ==
  <<IF p = 0 THEN r.start ELSE r.splits[p], r.splits[p + 1]>>

InExtents(a, e) == ~Before(a, e[1]) /\ Before(a, e[2])

Nobody == -1

\* Mutant: an address at a boundary goes to the partition below it.
PartitionForAddrInclusive(r, a) ==
  LET parts == {p \in 1 .. Len(r.splits) : ~Before(r.splits[p], a)}
  IN IF parts = {} \/ Before(a, r.start) THEN Nobody
     ELSE (CHOOSE p \in parts : \A q \in parts : p <= q) - 1

\* A binary search for the first end that is after the address.
PartitionForAddr(r, a) ==
  LET num == Len(r.splits)
      search[e \in (0 .. num) \X (0 .. num)] ==
        LET i == e[1]
            j == e[2]
            h == (i + j) \div 2
        IN IF i >= j THEN i
           ELSE IF Before(a, r.splits[h + 1]) THEN search[<<i, h>>] ELSE search[<<h + 1, j>>]
      part == search[<<0, num>>]
  IN IF Before(a, r.start) \/ part >= num THEN Nobody ELSE part
=============================================================================
