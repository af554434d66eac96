---------------------------- MODULE MCFrameStream ----------------------------
EXTENDS FrameStream

\* Bytes 1 and 9 play the delimiters; 0 is payload and the high length byte.
Delimited(s, e, c) == [kind |-> "text", start |-> s, end |-> e, contain |-> c,
                       length |-> 0, max |-> 2]
Fixed(n, c) == [kind |-> "text", start |-> <<1>>, end |-> <<>>, contain |-> c,
                length |-> n, max |-> 0]
Framed(header, offset, size, adjust) ==
  [kind |-> "binary", start |-> <<1>>, header |-> header, offset |-> offset,
   size |-> size, adjust |-> adjust]

\* A delimited, a fixed and a binary rule; two rules on one marker; an end
\* delimiter inside the start, and one that begins with the end of the start; a
\* length field of one byte; a negative adjustment; an announced length that may
\* end inside the header; negative lengths, with and without an end delimiter; a
\* negative offset, size and header; sums that wrap; a marker of no bytes.
MCSchemes ==
  {<<Delimited(<<1>>, <<9>>, TRUE)>>,
   <<Delimited(<<1>>, <<0, 9>>, FALSE)>>,
   <<Fixed(3, FALSE)>>,
   <<Framed(3, 1, 2, 3)>>,
   <<Framed(3, 1, 2, 3), Delimited(<<1, 1>>, <<9>>, FALSE)>>,
   <<Delimited(<<1, 9>>, <<9>>, FALSE)>>,
   <<Delimited(<<1, 0>>, <<0, 9>>, FALSE)>>,
   <<Framed(0, 1, 1, 3)>>,
   <<Framed(0, 1, 2, -1)>>,
   <<Framed(3, 1, 2, 1)>>,
   <<Fixed(-1, FALSE)>>,
   <<Fixed(-1, TRUE), [Fixed(-1, FALSE) EXCEPT !.end = <<9>>]>>,
   <<Framed(-1, -1, 2, 3)>>,
   <<Framed(0, 1, -1, 3)>>,
   <<Framed(0, MaxInt, 2, 3)>>,
   <<Framed(0, 1, 2, MaxInt)>>,
   <<Delimited(<<>>, <<9>>, TRUE), Framed(0, 1, 3, 3)>>}

\* The schemes of the usual shape, for the findings.
MCUsual == {<<Delimited(<<1>>, <<9>>, TRUE)>>, <<Fixed(3, FALSE)>>}
=============================================================================
