-------------------------- MODULE MCKnowledgeGraph --------------------------
(* KnowledgeGraph on small instances. *)
EXTENDS KnowledgeGraph

Piece(says, size, ends) == [text |-> says, size |-> size, ends |-> ends]
Block(pieces) == [level |-> 0, pieces |-> pieces]

\* With two characters to a token: a heading and a subheading of one token and a half; a
\* paragraph; one that says the same twice; a table as large as a parent; and blocks too
\* large for one: sentences of which one is too large itself, words, and lines of code.
H1 == [level |-> 1, pieces |-> <<Piece("h1", 3, "block")>>]
H2 == [level |-> 2, pieces |-> <<Piece("h2", 3, "block")>>]
P  == Block(<<Piece("p1", 3, "sentence"), Piece("p2", 3, "sentence")>>)
R  == Block(<<Piece("r", 3, "sentence"), Piece("r", 3, "sentence")>>)
T  == Block(<<Piece("t1", 2, "line"), Piece("t2", 2, "line"), Piece("t3", 2, "block")>>)
B  == Block(<<Piece("b1", 3, "sentence"), Piece("b2", 4, "word"), Piece("b3", 2, "line"),
              Piece("b4", 3, "sentence"), Piece("b5", 1, "sentence")>>)
W  == Block(<<Piece("w1", 3, "word"), Piece("w2", 3, "word"), Piece("w3", 3, "block")>>)
L  == Block(<<Piece("l1", 2, "indent"), Piece("l2", 3, "line"), Piece("l3", 4, "block")>>)

\* An empty document; a large block that follows an open parent, and one that comes first;
\* a parent closed by a heading, and by a paragraph that repeats itself; a higher heading
\* after a lower one; headings that only fit because their tokens are rounded down, closed
\* by a table.
SomeTexts == {<<>>, <<P, B>>, <<W, H1, P, H2, P>>, <<H2, H1, R, L>>, <<H1, H1, H1, H2, T>>}
\* Two sentences of the first child are repeated by the second.
Paragraph == <<Block(<<Piece("s1", 2, "sentence"), Piece("s2", 1, "sentence"),
                       Piece("s3", 1, "sentence"), Piece("s4", 1, "block")>>)>>
Concepts(i) == IF i % 2 = 1 THEN {"a"} ELSE {"a", "b"}
=============================================================================
