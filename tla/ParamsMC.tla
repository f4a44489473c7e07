------------------------------ MODULE ParamsMC ------------------------------
(* Params with small inputs: statements of up to three pieces over $1, $2 and $10, a    *)
(* literal that contains $1, a minus and a name, apart or not, and a $1 inside or next  *)
(* to comments, dollar quotes, operators and line ends; values with quotes, comments,   *)
(* placeholders, escapes, signs and nothing at all. LetterA is "a".                     *)
EXTENDS Params

LetterA == 97

\* $1, $2, $10, '$1', - and a; before some of them a space keeps them apart from the last.
Pieces ==
  { <<Dollar, 49>>, <<Space, Dollar, 50>>, <<Space, Dollar, 49, 48>>,
    <<Space, Quote, Dollar, 49, Quote>>, <<Minus>>, <<LetterA>> }

LineEnd == 10

\* What may be before a $1: nothing, a comment or the begin of one, a dollar quote or the begin
\* of one, a line comment and the end of its line, a name, a literal on the line before, @.
Fronts ==
  { <<>>, <<Slash, Star>>, <<Slash, Star, Star, Slash>>, <<Dollar, Dollar>>,
    <<Dollar, LetterA, Dollar, Quote, Dollar, LetterA, Dollar>>, <<Minus, Minus, LineEnd>>, <<95>>,
    <<Quote, Quote, LineEnd>>, <<64>> }

Backs == { <<>>, <<Star, Slash>>, <<Dollar, Dollar>>, <<LineEnd, Quote, Quote>>, <<Slash, Star, Star, Slash>> }

MCTexts ==
  {FlattenSeq(pieces) : pieces \in BoundedSeq(Pieces, 3)}
    \cup {FlattenSeq(<<front, <<Dollar, 49>>, back>>) : front \in Fronts, back \in Backs}

Strings == { <<>>, <<Star, Slash>>, <<Quote>>, <<Dollar, 49>>, <<DQuote, Quote, Quote>> }

Values ==
  {Value("text", s) : s \in Strings}
    \cup { Value("i16", <<7>>), Value("i32", <<-7>>), Value("bool", <<1>>), None,
           Value("bytea", <<LetterA, Quote>>), Value("uuid", <<LetterA, 49>>),
           Value("json", <<DQuote, Dollar, 49, DQuote>>), Value("f64", <<78>>) }

\* Up to two parameters, or ten of which the first and the last matter.
MCParamLists ==
  BoundedSeq(Values, 2)
    \cup {[k \in 1..10 |-> IF k = 1 THEN ends[1] ELSE IF k = 10 THEN ends[2] ELSE Value("i16", <<5>>)] :
            ends \in { <<Value("text", <<Quote>>), Value("text", <<Dollar, 49>>)>>,
                      <<Value("i32", <<-7>>), Value("text", <<LetterA>>)>> }}

\* With Counts = 4, lists of four parameters are beyond the count.
MCBindLists ==
  BoundedSeq({ Value("text", <<>>), Value("text", <<LetterA, 0 + 49>>), Value("i16", <<-32767 - 1>>),
               Value("i32", <<32768>>), Value("bool", <<0>>), None, Value("bytea", <<LetterA>>),
               Value("bytea", <<>>), Value("bytea", <<Backslash, 120, 52, 49>>) }, 3)
    \cup {<<v>> : v \in { Value("text", <<0>>), Value("bytea", <<Backslash>>), Value("bytea", <<200>>),
                          Value("bytea", <<Backslash, 48, 48, 49>>), Value("json", <<Backslash>>) }}
    \cup {[k \in 1..n |-> Value("i16", <<k>>)] : n \in {4, 5}}

\* Texts to quote.
MCNames == BoundedSeq({Quote, DQuote, LetterA}, 3)

MCColumns == {<<LetterA>>, <<LetterA, LetterA>>, <<>>}
=============================================================================
