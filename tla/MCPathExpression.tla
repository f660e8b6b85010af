-------------------------- MODULE MCPathExpression --------------------------
(* Small documents for PathExpression: attributes on two levels, siblings   *)
(* with subtrees, a chain, an uncle before and after a nested node.         *)
EXTENDS PathExpression

Wide == [elements |-> {<<>>, <<1>>, <<2>>, <<1, 1>>, <<2, 1>>},
         attributes |-> {<<(<<2>>), 1, 1>>, <<(<<2>>), 2, 1>>}]
Deep == [elements |-> {<<>>, <<1>>, <<2>>, <<2, 1>>, <<2, 1, 1>>},
         attributes |-> {<<(<<2, 1>>), 1, 1>>}]
Nested == [elements |-> {<<>>, <<1>>, <<1, 1>>, <<1, 2>>, <<1, 2, 1>>, <<1, 3>>, <<2>>},
           attributes |-> {}]

SmallDocuments == {Wide, Deep, Nested}
AllAxes == {"self", "child", "descendant", "descendant-or-self", "parent", "ancestor",
            "ancestor-or-self", "following-sibling", "preceding-sibling", "following", "preceding",
            "attribute", "union"}
=============================================================================
