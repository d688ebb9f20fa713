------------------------------ MODULE MCRedis ------------------------------
(***************************************************************************)
(* Model checking of what is kept in Redis: the replacement cache and its  *)
(* load (RbfRestart), and the transactions of the mempool (RedisQueue).    *)
(* The two share no state here: a behaviour is one of one of them, chosen  *)
(* at the start.                                                           *)
(***************************************************************************)
EXTENDS RbfRestart, RedisQueue, TLC

VARIABLE kept

CONSTANTS a, b, c

\* Every pair of transactions conflicts.
AllConflict == {p \in Txid \X Txid : p[1] # p[2]}

\* The transactions that signal alike are interchangeable.
TxSymmetry == {p @@ q : p \in Permutations(Signals),
                        q \in Permutations(Txid \ Signals)}

KeptInit == kept \in {"replacements", "mempool"} /\ RestartInit /\ RedisInit

KeptNext ==
    /\ UNCHANGED kept
    /\ \/ kept = "replacements" /\ RestartNext /\ UNCHANGED redisVars
       \/ kept = "mempool" /\ RedisNext /\ UNCHANGED allVars

KeptSpec == KeptInit /\ [][KeptNext]_<<kept, allVars, redisVars>>
=============================================================================
