---------------------------- MODULE MCConditions ----------------------------
(***************************************************************************)
(* Instances of Conditions for TLC: the home city, two of the roundup, one *)
(* of them with a misspelling the running service knows and one it does    *)
(* not know yet, and a name that is none.                                  *)
(***************************************************************************)
EXTENDS Conditions

CONSTANTS muncie, lima, champaign, lyma, lime, they, west, calm

MCCity     == {muncie, lima, champaign}
MCGarble   == {lyma, lime, they}
MCFolds    == [n \in MCCity \cup MCGarble |-> IF n = lime THEN lima ELSE n]
MCSlot     == [c \in MCCity |-> IF c = champaign THEN lima ELSE None]
MCCorrections == (lyma :> lima) @@ (lime :> lima) @@ (they :> None)
MCSpeedOf  == (west :> 8) @@ (calm :> 0)
MCMaxLen   == [k \in Cond |-> IF k = "temp" THEN 2 ELSE 3]

At(n, t)   == [name |-> n, temp |-> t]
Home(t, w) == [header |-> muncie, temp |-> t, wind |-> w, recap |-> FALSE, roundup |-> <<>>]
Round(r)   == [header |-> None, temp |-> None, wind |-> None, recap |-> FALSE, roundup |-> r]

\* Winds that change, and a recap.
HomeSegments == {Home(70, west), Home(71, calm), [Home(55, None) EXCEPT !.recap = TRUE]}
\* A city under both spellings, in one roundup and in two; junk; a slot; an outlier.
RoundSegments == {Round(<<At(lima, 71)>>), Round(<<At(lyma, 72), At(lime, 73)>>)}
OddSegments == {Round(<<At(they, 60), At(lima, 71), At(champaign, 20)>>),
                Round(<<At(champaign, 70), At(lyma, 72), At(lima, 200)>>)}
MCSegments == HomeSegments \cup RoundSegments \cup OddSegments

=============================================================================
