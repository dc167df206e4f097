--------------------------- MODULE MCHybridStream ---------------------------
(* Contents of up to five bytes; keys in which a part of the separator occurs. *)
EXTENDS HybridStream

\* the separator begins and ends with the same byte, as DEFAULT_SEPARATOR does
MCSeparator == <<"n", "d", "D", "n">>
MCPreambles == {<<"k", "k">>, <<"n", "k">>, <<"k", "n">>, <<"n", "d">>, <<"k", "n", "d">>, <<"n", "n", "d">>}
MCContents == {<< >>, <<1>>, <<1, 2>>, <<1, 2, 3>>, <<1, 2, 3, 4, 5>>}
=============================================================================
