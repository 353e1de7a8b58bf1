----------------------------- MODULE MCIrcServer -----------------------------
(* The instance of IrcServerProperties that TLC checks.  Clients and         *)
(* nicknames are interchangeable in every property without fairness.         *)
EXTENDS IrcServerProperties, TLC

(* Two values for SameNick: no two nicknames of the instance, or all of     *)
(* them, are spellings of one.                                              *)
DistinctNicks == {<<n, n>> : n \in Nick}
OneNickManySpellings == Nick \X Nick

Symmetry == Permutations(Fd) \cup Permutations(Nick)
=============================================================================
