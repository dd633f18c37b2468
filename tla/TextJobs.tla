------------------------------ MODULE TextJobs ------------------------------
(***************************************************************************)
(* The job packages under scripts/jobs: what each emits for a line of text *)
(* and how it reduces the values of a key.                                 *)
(*                                                                         *)
(* A text is a sequence of symbols.  A symbol is a character, or stands    *)
(* for a run of characters that no job takes apart: "W", "C" and "T" for   *)
(* the starts of header lines (WARC/ and WARC-, Content-Type: and          *)
(* Content-Length:, WARC-Target-URI:), and "u", "v", "x" for the starts of *)
(* absolute URLs (http://site, https://www.site, http:// and no host).     *)
(* Each job is given texts over the symbols it tells apart, in which a URL *)
(* is followed by punctuation or a blank.                                  *)
(*                                                                         *)
(* A key is a sequence of symbols; a value is the integer whose decimal    *)
(* text Itoa writes, and which Atoi reads back.                            *)
(***************************************************************************)
EXTENDS Integers, SequencesExt

CONSTANTS
    StopWords,     \* langdetect: language -> the words that speak for it
    Languages,     \* langdetect: its languages in the order of their codes
    MinTokens,     \* langdetect: words a line needs to be classified, 3
    LengthBounds   \* docdensity: the lengths at which its histogram steps

ASSUME TextJobsAssumption ==
    /\ Languages \in Seq(DOMAIN StopWords) /\ MinTokens \in Nat \ {0}
    /\ LengthBounds \in SUBSET Nat /\ IsFiniteSet(LengthBounds)

JobNames == {"wordcount", "docdensity", "langdetect", "domainpop"}
NL == "nl"
Blank == " "
Lower == [c \in {"a", "b", "A", "1"} |-> IF c = "A" THEN "a" ELSE c]
Letters == {"a", "b", "A"}
Alnum == DOMAIN Lower
Symbols == Alnum \cup {NL, Blank, ".", "W", "C", "T", "u", "v", "x"}
EmptyKey == <<>>
Pair(k, v) == [key |-> k, value |-> v]

-----------------------------------------------------------------------------
(* Text *)

\* The elements of a sequence that are in a set, in their order.
Only(seq, set) ==
    FoldLeft(LAMBDA acc, x : IF x \in set THEN Append(acc, x) ELSE acc, <<>>, seq)

\* The runs of symbols of a text that are in a set, empty ones included.
Grown(runs, c, inner) ==
    IF c \in inner THEN [runs EXCEPT ![Len(runs)] = Append(@, c)] ELSE Append(runs, <<>>)
Split(text, inner) == FoldLeft(LAMBDA runs, c : Grown(runs, c, inner), << <<>> >>, text)

\* bufio.Scanner: the lines of a text without their newlines.  A text that
\* ends in a newline has no empty line after it.
LinesOf(text) ==
    LET all == Split(text, Symbols \ {NL})
    IN IF Last(all) = <<>> THEN Front(all) ELSE all

\* strings.FieldsFunc: the maximal runs of symbols that separate nothing.
Fields(text, inner) ==
    LET runs == Split(text, inner) IN Only(runs, Range(runs) \ {<<>>})

TrimSpace(line) ==
    LET solid == {i \in DOMAIN line : line[i] # Blank}
    IN IF solid = {} THEN <<>> ELSE SubSeq(line, Min(solid), Max(solid))

Lowered(word) == [i \in DOMAIN word |-> Lower[word[i]]]

-----------------------------------------------------------------------------
(* The four mappers *)

\* Seeded fault: words split off as by strings.Split, with an empty one between
\* neighbouring separators.
EmptyWordsToo(line) ==
    LET words == Split(line, Alnum)
    IN [i \in DOMAIN words |-> Pair(Lowered(words[i]), 1)]
WordCountMap(line) ==
    LET words == Fields(line, Alnum)
    IN [i \in DOMAIN words |-> Pair(Lowered(words[i]), 1)]

IsWARCHeader(line) == line[1] \in {"W", "C", "T"}

\* The key of a bucket has a "+" for each bound the length reaches.
LengthBucket(n) == <<"hist:len.">> \o [i \in 1 .. Cardinality({b \in LengthBounds : b <= n}) |-> "+"]

DocDensityMap(text) ==
    LET line == TrimSpace(text)
        total == Len(line)
        alnum == Cardinality({i \in DOMAIN line : line[i] \in Alnum})
    IN IF line = <<>> \/ IsWARCHeader(line) THEN <<>>
       ELSE << Pair(<<"stat:lines">>, 1), Pair(<<"stat:chars.total">>, total),
               Pair(<<"stat:chars.alnum">>, alnum),
               Pair(<<"stat:chars.other">>, total - alnum),
               Pair(LengthBucket(total), 1) >>

\* The best score wins, and among equals the first language; a line too short
\* to judge emits nothing.
LangDetectMap(text) ==
    LET line == TrimSpace(text)
        tokens == Fields(line, Letters)
        Score(i) ==
            Cardinality({j \in DOMAIN tokens : Lowered(tokens[j]) \in StopWords[Languages[i]]})
        winners == {i \in DOMAIN Languages :
                      Score(i) > 0 /\ \A j \in DOMAIN Languages : Score(j) <= Score(i)}
        best == IF winners = {} THEN "unknown" ELSE Languages[Min(winners)]
    IN IF line = <<>> \/ IsWARCHeader(line) \/ Len(tokens) < MinTokens THEN <<>>
       ELSE << Pair(<<"lang:", best>>, 1) >>

IsURL(token) == token # <<>> /\ token[1] \in {"u", "v", "x"}

\* net/url finds a host unless none follows the scheme or a blank is in it;
\* "www." is dropped.  NoDomain is domainOf's second result being false.
NoDomain == <<>>
DomainOf(url) ==
    IF ~IsURL(url) \/ url[1] = "x" \/ Blank \in Range(url) THEN NoDomain
    ELSE <<"site">> \o Tail(url)

TrimDots(token) ==
    LET solid == {i \in DOMAIN token : token[i] # "."}
    IN SubSeq(token, 1, Max(solid))

DomainPopMap(text) ==
    LET line == TrimSpace(text)
        tokens == Fields(line, Symbols \ {Blank})
        urls == Only(tokens, {t \in Range(tokens) : IsURL(t)})
        found == IF line = <<>> \/ line[1] = "W" THEN <<>>
                 ELSE IF line[1] = "T" THEN << DomainOf(TrimSpace(Tail(line))) >>
                 ELSE [i \in DOMAIN urls |-> DomainOf(TrimDots(urls[i]))]
        hosts == Only(found, Range(found) \ {NoDomain})
    IN [i \in DOMAIN hosts |-> Pair(hosts[i], 1)]

JobMap(job, line) ==
    CASE job = "wordcount"  -> WordCountMap(line)
      [] job = "docdensity" -> DocDensityMap(line)
      [] job = "langdetect" -> LangDetectMap(line)
      [] job = "domainpop"  -> DomainPopMap(line)

\* Two reducers add the values up, two count them.
SumReduce(values) == FoldLeft(+, 0, values)
CountReduce(values) == Len(values)
JobReduce(job, values) ==
    IF job \in {"wordcount", "docdensity"} THEN SumReduce(values) ELSE CountReduce(values)
=============================================================================
