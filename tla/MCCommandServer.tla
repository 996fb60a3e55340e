-------------------------- MODULE MCCommandServer --------------------------
(* Instances of CommandServer for TLC.                                     *)
EXTENDS CommandServer, TLC

In(key, gpt, dir, ttl, files) ==
    [key |-> key, gpt |-> gpt, dir |-> dir, command |-> "cmd", ttl |-> ttl,
     files |-> files, authorized |-> TRUE, wellFormed |-> TRUE,
     origin |-> TRUE]

(* Cached commands of two GPTs and of a second session, and an uncached    *)
(* one; any of them may change directory.                                  *)
CacheInputs == {In("s1", "g1", NoDir, 1, FALSE), In("s1", "g2", NoDir, 1, FALSE),
                In("s2", "g1", NoDir, 1, FALSE), In("s2", "g1", NoDir, 0, FALSE)}

(* Uncached commands of two sessions; each may change directory.           *)
SessionInputs == {In("s1", "g1", NoDir, 0, FALSE), In("s2", "g1", NoDir, 0, FALSE)}

(* One of each kind the handler tells apart, refused ones included.        *)
MixedInputs == {In("s1", "g1", NoDir, 0, TRUE), In("s1", "g1", "sub", 1, FALSE),
                In("", "g1", NoDir, 0, FALSE), In("", "g1", NoDir, 1, FALSE),
                In("s1", "g1", NoDir, 1, TRUE), In("s1", "g1", NoDir, 2, FALSE),
                In("s1", "g2", NoDir, 0, FALSE),
                [In("s1", "g1", NoDir, 0, FALSE) EXCEPT !.authorized = FALSE],
                [In("s1", "g1", NoDir, 0, FALSE) EXCEPT !.wellFormed = FALSE],
                [In("s1", "g1", NoDir, 0, FALSE) EXCEPT !.origin = FALSE]}

(* Cached commands of one session in explicit directories.                 *)
DirInputs == {In("s1", "g1", "home", 1, FALSE), In("s1", "g1", "sub", 1, FALSE)}

(* Requests are interchangeable; the safety properties name none of them.  *)
RequestSymmetry == Permutations(Requests)

AnyGPT == {}
OneGPT == {"g1"}
=============================================================================
