-------------------------------- MODULE Sums --------------------------------
(* f[1] + ... + f[n].                                                      *)
EXTENDS Integers

SumOf(f, n) == LET sum[i \in 0 .. n] == IF i = 0 THEN 0 ELSE sum[i - 1] + f[i] IN sum[n]
=============================================================================
