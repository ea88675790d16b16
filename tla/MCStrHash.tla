----------------------------- MODULE MCStrHash -----------------------------
(* Instances of StrHash for TLC.  Strings are numbers and hash to themselves, but
   for the last, which collides with the first.  A behaviour is of one of two kinds:
   a few strings, one of them the colliding one, in any order (stride 0); or all the
   others in a fixed order, one order for each stride modulo the prime NStr + 1
   (stride 1 ascends, stride NStr descends), and then any of them again.  The trees
   of the second kind reach five levels, so that a leaf split climbs through several
   index splits. *)
EXTENDS StrHash

CONSTANTS NStr, Few

VARIABLES stride, pos

MCStr == 1 .. NStr + 1
MCHashOf == [s \in MCStr |-> IF s = NStr + 1 THEN 1 ELSE s]

Free == 1 .. Few \cup {NStr + 1}
Nth(i) == (stride * i) % (NStr + 1)

LInit == strhash_start /\ stride \in 0 .. NStr /\ pos = 0

Anyhow == stride = 0 /\ (\E s \in Free : strhash_write(s)) /\ pos' = pos
Strided ==
    stride > 0 /\ pos < NStr /\ strhash_write(Nth(pos + 1)) /\ pos' = pos + 1
Again == pos = NStr /\ (\E s \in 1 .. NStr : strhash_write(s)) /\ pos' = pos

LNext == (Anyhow \/ Strided \/ Again) /\ UNCHANGED stride

LSpec == LInit /\ [][LNext]_<<btnode, stride, pos>>
=============================================================================
