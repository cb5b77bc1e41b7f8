---------------------------- MODULE MCGenomeGraph ----------------------------
(* A small instance of GenomeGraph: two spellings of one module, a directory    *)
(* with an index, and the imports that resolution treats differently.           *)
EXTENDS GenomeGraph

Seg(stem, suffix) == [stem |-> stem, suffix |-> suffix]
Src == Seg("src", "")

Main == <<Seg("main", ".ts")>>
AppTs == <<Src, Seg("app", ".ts")>>
AppJs == <<Src, Seg("app", ".js")>>
Lib == <<Src, Seg("lib", ""), Seg("index", ".ts")>>

StemOrder == <<".", "..", ".env", "app", "index", "lib", "main", "react", "src", "up">>
AllStems == ToSet(StemOrder)
DottedStems == {".", "..", ".env"}
AllEndings == SourceSuffixes \cup {"", ".css", ".JS"}
InLowerCase == [e \in AllEndings |-> IF e = ".JS" THEN ".js" ELSE e]

AllFiles == {Main, AppTs, AppJs, Lib}
TwoFiles == {Main, AppTs}

\* ./src/app, ./src/app.js, ./src/app.JS, ./lib, .., ../up.css, react, .env
AllSpecifiers ==
  << <<Dot, Src, Seg("app", "")>>, <<Dot, Src, Seg("app", ".js")>>, <<Dot, Src, Seg("app", ".JS")>>,
     <<Dot, Seg("lib", "")>>, <<Up>>, <<Up, Seg("up", ".css")>>, <<Seg("react", "")>>,
     <<Seg(".env", "")>> >>

\* A function with two signatures, exported twice.
AllSymbols ==
  [f \in AllFiles |-> IF f = Main THEN {[name |-> "run", line |-> 1], [name |-> "run", line |-> 2]}
                      ELSE IF f = Lib THEN {[name |-> "help", line |-> 1]} ELSE {}]
AllExports ==
  [f \in AllFiles |-> IF f = Main THEN {[name |-> "run", line |-> 3], [name |-> "run", line |-> 4]} ELSE {}]
BrokenFiles == {Lib}

\* By kind, then by path, segment after segment, then by line.
KindOrder == <<"FILE", "ASSET", "EXTERNAL", "SYMBOL">>
SuffixOrder == <<"", ".css", ".js", ".ts", ".JS">>
Number(list, x) == CHOOSE k \in DOMAIN list : list[k] = x
Segment(path, k) ==
  IF k > Len(path) THEN 0 ELSE 5 * Number(StemOrder, path[k].stem) + Number(SuffixOrder, path[k].suffix)
Alphabetical ==
  [n \in AnyNode |->
     5 * (56 * (56 * (56 * (56 * Number(KindOrder, n.kind) + Segment(n.path, 1)) + Segment(n.path, 2))
                  + Segment(n.path, 3)) + Segment(n.path, 4)) + n.line]
=============================================================================
