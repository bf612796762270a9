-------------------------------- MODULE Sums --------------------------------
(* Sums over a sequence of numbers, as a recursive function so that they   *)
(* can be proved about.                                                    *)
EXTENDS Integers, Sequences

\* The sum() over the positions of a book, and the totals that a loop adds up.
Total(numbers) ==
    LET sum[n \in 0..Len(numbers)] == IF n = 0 THEN 0 ELSE sum[n - 1] + numbers[n]
    IN sum[Len(numbers)]
==============================================================================
