--------------------------- MODULE MCDeliveryAudit ---------------------------
(* Small instances of DeliveryAudit: two commits and two paths.  The first      *)
(* commit changes one path, its message names a feature that the path does not. *)
EXTENDS DeliveryAudit, TLC

Login == "login"
Docs == "docs"
Deploy == "deploy"
Dash == "dash"

AllClaims == {Login, Docs, Deploy, Dash}
NoClaim == {Dash}

\* Reports whose claims leave a path uncited, whose claims cite both paths, and with a claim that
\* does not parse.
ThreeBodies == {{Login, Deploy}, {Login, Docs}, {Login, Dash}}

TypeOf == [c \in AllClaims |-> IF c = Deploy THEN "deployment" ELSE "repository_change"]

TermsOf ==
  [c \in AllClaims |-> CASE c = Login -> {"auth", "token"}
                         [] c = Docs -> {"guide"}
                         [] c = Deploy -> {"deployed"}
                         [] c = Dash -> {}]

\* One claim shares its term with a commit's message only.
MessageTermsOf == [TermsOf EXCEPT ![Login] = {"session"}]

TwoPaths == {1, 2}
TermsOfPath == <<{"auth"}, {"guide"}>>
TouchedBy == <<{1}, {1, 2}>>
MessageOf == <<{"session"}, {"token"}>>

\* No path has a colon; the second has one, after which a name of its own follows.
NoColon == <<1, 2>>
Colon == <<1, 3>>

RequestSymmetry == Permutations(Requests)
=============================================================================
