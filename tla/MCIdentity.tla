------------------------------ MODULE MCIdentity ------------------------------
(***************************************************************************)
(* Two addresses; an id for each, one for both and one for neither.        *)
(***************************************************************************)
EXTENDS Identity

CONSTANTS ip1, ip2, id1, id2, both, neither

Fits == [id \in {id1, id2, both, neither} |->
            CASE id = id1  -> {ip1}
              [] id = id2  -> {ip2}
              [] id = both -> {ip1, ip2}
              [] OTHER     -> {}]
=============================================================================
