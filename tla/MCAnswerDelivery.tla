--------------------------- MODULE MCAnswerDelivery ---------------------------
(* Every text of up to three paragraphs of these shapes, texts with nothing  *)
(* but markup, and every two tags.                                           *)
EXTENDS AnswerDelivery

(* Paragraphs, each line by its columns and marks.                           *)
Shapes == { << <<1>> >>, << <<1, 2, 3>> >>, << <<Mark, 1, 2, 3>> >>,
            << <<1, 2, 3, 4, 5, 6>> >>, << <<Mark, 1, 2, 3, 4>> >>,
            << <<1>>, <<1, 2>> >>, << <<1, 2, 3, 4, 5>>, <<1>> >>,
            << << >>, <<Mark, 1, 2>> >>,
            << <<Mark, 1, 2>>, <<1, 2, 3, 4, 5, 6>>, <<1>> >> }

(* Escapes and tags: in lines that fit, across a cut, beside one.            *)
CutShapes == { << <<1, Rest, 2, Rest>> >>,
               << <<1, 2, 3, 4, Rest, 5, Rest>> >>,
               << <<1, 2, 3, Mark, End, 4, 5, 6>> >>,
               << <<1, 2>>, <<1, 2, 3, Mark, End, 4, Mark, Mark, End, 5>> >> }
Blank == << << >> >>
Marked == << <<Mark>> >>

TextOf(shape) ==
    [p \in DOMAIN shape |-> [l \in DOMAIN shape[p] |->
        [k \in DOMAIN shape[p][l] |-> <<p, l, shape[p][l][k]>>]]]

(* A line with markup in its midst, which is short enough without it.        *)
Short == << <<1, Mark, 2, Mark, 3>> >>

MCTexts == {TextOf(<<Short>>)}
    \union {TextOf(<<a>>) : a \in Shapes \union CutShapes}
    \union {TextOf(<<a, b>>) : a, b \in Shapes \union CutShapes}
    \union {TextOf(<<a, b, c>>) : a, c \in Shapes, b \in Shapes \union {Blank}}
    \union {TextOf(<<Marked>>), TextOf(<<Marked, Marked, Marked, Marked>>)}
    \union {TextOf(<<a, Marked>>) : a \in Shapes}
MCAnswers ==
    {[text |-> t, files |-> << >>] : t \in MCTexts}
      \union {[text |-> t, files |-> <<f, g>>] :
                t \in {<< >>, TextOf(<< << <<1>> >> >>)}, f, g \in FileKind}
=============================================================================
