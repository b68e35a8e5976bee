------------------------------ MODULE Chunker ------------------------------
(***************************************************************************)
(* StructureTolerantMarkdownChunker: the atomic blocks of a document are   *)
(* packed greedily into parents, and the sentences of each parent, with an *)
(* overlap, into children.                                                 *)
(*                                                                         *)
(* A block is what AtomicBlockLexer makes of it: the level of a heading, 0 *)
(* for the others, and its pieces, that is its words as far as an          *)
(* expression of the chunker can tell them apart: each with its text, the  *)
(* number of its characters, and what it ends.  The white space behind a   *)
(* piece counts as one character, however much there is.                   *)
(***************************************************************************)
EXTENDS Naturals, SequencesExt

CONSTANTS
    PerToken,   \* chars_per_token
    MaxParent,  \* max_parent_tokens
    ChildSize,  \* child_chunk_tokens
    ChildShare  \* child_overlap_tokens

ASSUME SizesAssumption == {PerToken, MaxParent, ChildSize, ChildShare} \subseteq Nat \ {0}

\* What a piece ends: a word, a sentence, a line, a line before another one that is blank
\* or indented, or its block.  What ends in one of .!? is a sentence wherever it stands.
Ends == {"word", "sentence", "line", "indent", "block"}

\* The characters of pieces without what is between them, and with it.
Size(pieces) == FoldLeft(LAMBDA sum, piece : sum + piece.size, 0, pieces)
Chars(pieces) == Size(pieces) + Len(pieces) - 1
\* _estimate_tokens.
Tokens(pieces) ==
    LET tokens == Chars(pieces) \div PerToken IN IF tokens = 0 THEN 1 ELSE tokens

\* The text of blocks, of parents, of sentences.
Pieces(blocks) == FoldLeft(LAMBDA whole, block : whole \o block.pieces, <<>>, blocks)
\* A text is a list of blocks and a block a list of pieces.  The lexer makes no empty block.
IsText(blocks) ==
    /\ blocks \in Seq(Range(blocks))
    /\ \A b \in Range(blocks) :
          /\ b.pieces # <<>> /\ b.pieces \in Seq(Range(b.pieces))
          /\ \A x \in Range(b.pieces) : x.size \in Nat /\ x.ends \in Ends
          /\ Last(b.pieces).ends \in {"sentence", "block"}
          /\ \A x \in Range(Front(b.pieces)) : x.ends # "block"

\* re.split, splitlines and split: the runs of pieces between two ends of the given kinds,
\* in order, with their characters and those that are added to each.
Continue(groups, piece, ends) ==
    IF groups = <<>> \/ Last(Last(groups)).ends \in ends
      THEN Append(groups, <<piece>>)
      ELSE Append(Front(groups), Append(Last(groups), piece))
Groups(pieces, ends) == FoldLeft(LAMBDA g, piece : Continue(g, piece, ends), <<>>, pieces)
Units(pieces, ends, extra) ==
    LET groups == Groups(pieces, ends) IN
    [k \in DOMAIN groups |->
        [place |-> k, pieces |-> groups[k], size |-> Chars(groups[k]) + extra]]
-----------------------------------------------------------------------------
(* Parents. *)

\* _split_large_block: into sentences, or else lines, or else words with a blank each.
Splittable(pieces) ==
    LET inner == {x.ends : x \in Range(Front(pieces))} IN
    IF "sentence" \in inner THEN Units(pieces, {"sentence"}, 0)
    ELSE IF inner \cap {"line", "indent"} # {} THEN Units(pieces, {"line", "indent"}, 0)
    ELSE Units(pieces, Ends, 1)
\* As many of them as fit, and always one.  What joins them is not counted.
PutUnit(bins, unit) ==
    LET open == Last(bins) IN
    IF open = <<>> \/ Size(open) + unit.size <= MaxParent * PerToken
      THEN Append(Front(bins), Append(open, unit))
      ELSE Append(bins, <<unit>>)
Split(units) == FoldLeft(PutUnit, << <<>> >>, units)
PartsOf(pieces) ==
    LET bins == Split(Splittable(pieces)) IN [i \in DOMAIN bins |-> Pieces(bins[i])]

\* active_headers after a block: a heading ends those of its level and below.
Headers(active, block) ==
    IF block.level = 0 THEN active ELSE {h \in active : h.level < block.level} \cup {block}

\* flush_current_parent.
Flush(s) ==
    IF s.open = <<>> THEN s
    ELSE [s EXCEPT !.open = <<>>, !.tokens = 0,
            !.parents = Append(@, [path |-> s.headers, pieces |-> Pieces(s.open)])]

Large(block) == Tokens(block.pieces) > MaxParent
\* The tokens of blocks are added up, each rounded down.
Crowded(s, block) == s.tokens + Tokens(block.pieces) > MaxParent /\ s.open # <<>>
Put(s, block) ==
    [s EXCEPT !.open = Append(@, block), !.tokens = @ + Tokens(block.pieces)]
Stack(s, block) ==
    LET parts == PartsOf(block.pieces) IN
    [s EXCEPT !.parents = @ \o [i \in DOMAIN parts |-> [path |-> s.headers, pieces |-> parts[i]]]]

\* Mutant: the open parent is dropped when a large block follows.
PutBlock_Overwrites(s, block) ==
    LET t == [s EXCEPT !.headers = Headers(@, block)] IN
    IF Large(block) THEN Stack([t EXCEPT !.open = <<>>, !.tokens = 0], block)
    ELSE IF Crowded(t, block) THEN Put(Flush(t), block) ELSE Put(t, block)

\* One round of the loop.  The headers change before the parent that is open is flushed,
\* which thereby takes the path of the heading that did not fit.
PutBlock(s, block) ==
    LET t == [s EXCEPT !.headers = Headers(@, block)] IN
    IF Large(block) THEN Stack(Flush(t), block)
    ELSE IF Crowded(t, block) THEN Put(Flush(t), block) ELSE Put(t, block)

NoParents == [parents |-> <<>>, open |-> <<>>, tokens |-> 0, headers |-> {}]
Parents(blocks) ==
    Flush(FoldLeft(PutBlock, NoParents, blocks)).parents
-----------------------------------------------------------------------------
(* Children. *)

\* What re.split makes of the text of a parent: sentences, but also whole tables, lists and
\* blocks of code, as far as there is no .!? or blank line in them.
\* A line break that the expression leaves at the end of one is not counted.
Sentences(parent) == Units(parent.pieces, {"sentence", "indent", "block"}, 0)

\* The last sentences of a child that the next one repeats.
Shared(sentences) ==
    LET fits == {i \in 1..Len(sentences) + 1 :
                    Size(SubSeq(sentences, i, Len(sentences))) <= ChildShare * PerToken} IN
    SubSeq(sentences, Min(fits), Len(sentences))

\* After the first child the length counts the blanks between the sentences as well.
PutSentence(s, sentence) ==
    IF s.open = <<>> \/ s.length + sentence.size <= ChildSize * PerToken
      THEN [s EXCEPT !.open = Append(@, sentence), !.length = @ + sentence.size]
      ELSE LET next == Append(Shared(s.open), sentence) IN
           [done |-> Append(s.done, s.open), open |-> next,
            length |-> Size(next) + Len(next)]

Says(child) == LET pieces == Pieces(child) IN [i \in DOMAIN pieces |-> pieces[i].text]
NoChildren == [done |-> <<>>, open |-> <<>>, length |-> 0]

\* The last child is left out when it has the text of the one before.  A parent no larger
\* than a child has one child: that is what becomes of its sentences as well.
ChildrenOf(parent) ==
    LET s == FoldLeft(PutSentence, NoChildren, Sentences(parent)) IN
    IF s.done # <<>> /\ Says(Last(s.done)) = Says(s.open) THEN s.done ELSE Append(s.done, s.open)

\* The chunks file: children[i] are those of parents[i].
Chunks(blocks) ==
    LET parents == Parents(blocks) IN
    [parents |-> parents, children |-> [i \in DOMAIN parents |-> ChildrenOf(parents[i])]]
-----------------------------------------------------------------------------
(* Properties of a chunks file. *)

\* The children of a parent are runs of its sentences; each goes on where the one before
\* ended or overlaps with it, none is left out but at the end what the last child says
\* already, and none grows beyond its size by more than one sentence behind the overlap.
StartOf(c, sentences) == CHOOSE i \in DOMAIN sentences : sentences[i] = c[1]
EndOf(c, sentences) == StartOf(c, sentences) + Len(c) - 1
IsChild(c, sentences) ==
    /\ c # <<>> /\ c = SubSeq(sentences, StartOf(c, sentences), EndOf(c, sentences))
    /\ Size(c) <= ChildSize * PerToken \/ Size(Front(c)) <= ChildShare * PerToken
GoesOn(c, d, sentences) ==
    /\ StartOf(d, sentences) <= EndOf(c, sentences) + 1
    /\ EndOf(d, sentences) > EndOf(c, sentences)
Finishes(c, sentences) ==
    \/ EndOf(c, sentences) = Len(sentences)
    \/ \E i \in DOMAIN sentences :
          /\ i <= EndOf(c, sentences) + 1
          /\ Says(SubSeq(sentences, i, Len(sentences))) = Says(c)
Covers(children, sentences) ==
    /\ \A k \in DOMAIN children : /\ IsChild(children[k], sentences)
                                  /\ k > 1 => GoesOn(children[k - 1], children[k], sentences)
    /\ StartOf(children[1], sentences) = 1 /\ Finishes(Last(children), sentences)

\* The parents are the text, whole and in order, and so are the sentences of each.
PartitionOf(blocks, chunks) ==
    /\ Pieces(chunks.parents) = Pieces(blocks)
    /\ \A i \in DOMAIN chunks.parents :
          Pieces(Sentences(chunks.parents[i])) = chunks.parents[i].pieces
=============================================================================
