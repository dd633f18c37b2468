----------------------------- MODULE MCPipeline -----------------------------
(* Instances of Pipeline for TLC, and a statement of the repository that it *)
(* does not keep.                                                           *)
EXTENDS Pipeline

MCStopWords == [en |-> {<<"a">>, <<"b">>}, fr |-> {<<"b">>, <<"b", "a">>}]
MCLanguages == <<"en", "fr">>
MCLengthBounds == {2, 3}
MCKeyHash(key) == Len(key) + (IF "b" \in Range(key) THEN 1 ELSE 0)

\* Texts of up to n of the given lines, with and without a last newline.
Texts(lines, n) ==
    LET Ended(ls) == FlattenSeq([i \in DOMAIN ls |-> ls[i] \o <<NL>>])
        ended == {Ended(ls) : ls \in BoundedSeq(lines, n)}
    IN ended \cup {Front(t) : t \in ended \ {<<>>}}

Local(job, texts) ==
    [job : {job}, mode : {"local"}, texts : {<<t>> : t \in texts}, limits : {<<0, 0>>}]
Crawl(mode, files, limits) ==
    [job : {"wordcount"}, mode : {mode}, texts : files, limits : limits]

\* A chunk is 5 symbols: the longest line of the first set fills the scanner's
\* buffer, and the longest of the others does not.  Three lines may be three
\* chunks, one more than there are slots.
WordLines == {<<>>, <<"A", ".", "b">>, <<"b", "b", "b", "b">>,
              <<"a", "a", "a", "a", "a", "a">>}
DensityLines == {<<>>, <<Blank, "a", Blank>>, <<"a", ".", "1">>, <<"W", "a">>}
LanguageLines == {<<"a", Blank, "b">>, <<"b", "A", Blank, "b">>, <<"b">>,
                  <<"W", "a", Blank, "b">>}
DomainLines == {<<"T", Blank, "u">>, <<"u", ".", Blank, "v">>, <<"x", ".">>,
                <<"W", Blank, "u">>, <<"T", "u", Blank, "a">>}

MCFiles == <<<<"a", NL, "b">>, <<"b", ".", "A", NL>>, <<"a", Blank, "b">>>>

MCTooLong == <<"a", NL, "a", "a", "a", "a", "a">>

MCInputs ==
    Local("wordcount", Texts(WordLines, 3))
      \cup Local("docdensity", Texts(DensityLines, 2))
      \cup Local("langdetect", Texts(LanguageLines, 2))
      \cup Local("domainpop", Texts(DomainLines, 2))
      \cup Crawl("urls", {MCFiles}, {<<0, 0>>, <<2, 3>>, <<3, 1>>})
      \cup Crawl("latest", {<<>>, <<MCFiles[2], MCTooLong>>}, {<<0, 0>>})

MCThreeChunks == Local("wordcount", Texts({<<"A", ".", "b">>}, 3))

\* "split a local file (`-input`) into 64 MB chunks and push them via
\* `POST /data`" (README.md:158): a job that reports success has counted the
\* whole file.  It has not when there are more chunks than slots: run() gives
\* slot i chunk i, and the others to nobody.
WholeInputCounted ==
    pc = "done" /\ ~lossy => merged = Reference(input.texts)
=============================================================================
