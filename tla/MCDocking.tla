------------------------------ MODULE MCDocking ------------------------------
(* Docking for TLC.  Each configuration is one of the ways to authenticate:*)
(* the user's agent, the device key, or the link of the visa service.      *)
EXTENDS Docking, TLC

CONSTANTS x1, x2, y1

Config(auto, boot, idp, demand, isVs, sess, links, ops_) ==
    [auto |-> auto, boot |-> boot, idp |-> idp, demand |-> demand, many |-> FALSE,
     vs |-> isVs, codes |-> {"Success"}, sess |-> sess, links |-> links,
     ops |-> ops_]

User == {Config(TRUE, FALSE, TRUE, None, FALSE, 2, 2, 1)}
Device == {[Config(FALSE, TRUE, FALSE, None, FALSE, 1, 2, 1)
                EXCEPT !.codes = {"Success", "Other"}]}
Static == {Config(TRUE, TRUE, FALSE, x, FALSE, 2, 1, 1) : x \in Addrs}
VsLink == {Config(TRUE, TRUE, FALSE, x, TRUE, 1, 2, 1) : x \in Addrs}
Several == {[c EXCEPT !.many = TRUE] : c \in Static}
All == User \cup Device \cup Static \cup VsLink \cup Several

Symmetry == Permutations(Addrs)
===============================================================================
