---------------------------- MODULE MCAgentLoop -----------------------------
(* Small instances of AgentLoop.                                           *)
EXTENDS AgentLoop

(* Messages of damaged histories: results out of place, twice or without   *)
(* a call, blank and silent messages, empty text.                          *)
Pool == {Msg("user", <<Block("text", 1)>>),
         Msg("user", <<Block("result", 11)>>),
         Msg("user", <<Block("result", 12), Block("result", 11)>>),
         Msg("user", <<Block("text", 2), Block("result", 12)>>),
         Msg("assistant", <<Block("use", 11)>>),
         Msg("assistant", <<Block("use", 11), Block("use", 12)>>),
         Msg("assistant", <<Block("text", 1), Block("use", 12)>>),
         Msg("assistant", <<Block("text", 1)>>),
         Msg("assistant", <<Block("blank", 0)>>),
         Msg("assistant", <<>>)}

(* Rows that turns left behind: none, and a silent turn followed by one    *)
(* that was interrupted in its tool round.                                 *)
Rows == {<<>>,
         <<User(8), Msg("assistant", <<Block("silent", 0)>>),
           User(9), Msg("assistant", <<Block("use", 11)>>)>>}

Damaged(n) == {h \in UNION {[1..l -> Pool] : l \in 1..n} : IdsUnique(h)}

LiveHistories == {[ms |-> r, turns |-> 0] : r \in Rows}
                   \cup {[ms |-> h, turns |-> MaxTurns] : h \in Damaged(4)}
=============================================================================
