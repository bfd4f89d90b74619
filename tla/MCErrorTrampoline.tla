-------------------------- MODULE MCErrorTrampoline --------------------------
(***************************************************************************)
(* ErrorTrampoline with characters of one, two and three bytes.            *)
(***************************************************************************)
EXTENDS ErrorTrampoline

CONSTANTS latin, greek, kana

MCCharacters == {latin, greek, kana}
MCWidth == [c \in MCCharacters |-> CASE c = latin -> 1 [] c = greek -> 2 [] c = kana -> 3]
=============================================================================
