----------------------------- MODULE MCReadings -----------------------------
\* Values for the readings: BCH(15,5) shortened by two, a mark id of two bits in three
\* copies, one log followed or two, and the command lines that differ in kind.
EXTENDS Readings

\* x^4 + x + 1, and x^2 + x + 1 for the checksum.
MCPrimitive == {0, 1, 4}
MCCrcPoly == <<1, 1>>
Numbered(bits) == [i \in 0 .. Len(bits) - 1 |-> bits[i + 1]]
Mine == Numbered(<<1, 0, 1>>)
\* The codeword of that id, and the word of an empty frame.
MCEmbedded ==
  { Numbered(<<1, 0, 1, 0, 0, 1, 1, 0, 1, 1, 1, 0, 0>>),
    Numbered(<<0, 0, 0, 0, 0, 0, 0, 0, 0, 0, 0, 0, 0>>) }

\* Frames of the clip that was marked, of another clip, and of footage nobody marked:
\* a frame without a mark abstains.
Frame(id, wrong, sure) ==
  [r \in Copies |-> [i \in Block |->
     IF (Encoded(id)[i] = 1) <=> (<<r, i>> \notin wrong) THEN sure ELSE -sure]]
MCSoft ==
  {Frame(<<1, 0>>, wrong, 3) :
     wrong \in UNION {kSubset(k, ({1} \X Block) \union {<<2, 1>>}) : k \in 0 .. 2}}
  \union {Frame(<<1, 1>>, wrong, 3) : wrong \in {{}, {<<1, 1>>}, {<<1, 1>>, <<2, 1>>}}}
  \union {Frame(<<0, 1>>, {}, 1), Frame(<<0, 0>>, {}, 1)}
MCClaims ==
  { [layout |-> Photo, captureId |-> Mine, markId |-> Absent],
    [layout |-> Video, captureId |-> Mine, markId |-> <<1, 0>>],
    [layout |-> Video, captureId |-> Mine, markId |-> Absent],
    [layout |-> "another", captureId |-> Mine, markId |-> Absent] }

MCPositions ==
  { [coordinates |-> TRUE, level |-> "declared", evidence |-> TRUE],
    [coordinates |-> TRUE, level |-> "authenticated", evidence |-> FALSE],
    [coordinates |-> TRUE, level |-> "a new one", evidence |-> FALSE],
    [coordinates |-> FALSE, level |-> "corroborated", evidence |-> FALSE] }
Answer(method, result, atIsInstant, radius) ==
  [method |-> method, result |-> result, atIsInstant |-> atIsInstant, radius |-> radius]
MCBodies ==
  { Answer("zone", "match", TRUE, TRUE), Answer("zone", "match", TRUE, FALSE),
    Answer("zone", "no-match", TRUE, TRUE), Answer("zone", "unknown", FALSE, TRUE),
    Answer("number", "match", TRUE, FALSE), Answer("number", "a new one", TRUE, FALSE),
    Answer("a new one", "match", TRUE, TRUE) }

Usual ==
  [ command |-> "verify", files |-> <<"a">>, sidecar |-> "beside", named |-> "there",
    c2pa |-> "none", watermark |-> "none", help |-> FALSE, showTrust |-> FALSE, json |-> FALSE,
    noDefaultLogs |-> FALSE, trustFiles |-> << >>, noDefaultTsa |-> FALSE, tsaRoots |-> << >>,
    offline |-> FALSE, chains |-> "none", requireGreen |-> FALSE ]
Paths == {"a", "b", "gone"}
Several == {<<"a", "b">>, <<"b", "gone", "a">>, <<"gone", "a">>}
MCCommands ==
  {[Usual EXCEPT !.files = f, !.requireGreen = g, !.offline = o] :
     f \in Several \union {<< >>, <<"a">>}, g \in BOOLEAN, o \in BOOLEAN}
  \union {[Usual EXCEPT !.command = c, !.sidecar = s, !.named = n, !.c2pa = m] :
            c \in {"verify", "extract"}, s \in {"beside", "named", "refused"},
            n \in {"there", "missing"}, m \in {"none", "there", "missing"}}
  \union {[Usual EXCEPT !.trustFiles = t, !.noDefaultLogs = d, !.noDefaultTsa = d, !.showTrust = w] :
            t \in {<<"whole">>, <<"whole", "broken">>}, d \in BOOLEAN, w \in BOOLEAN}
  \union {[Usual EXCEPT !.tsaRoots = r] :
            r \in {<<"certificate">>, <<"certificate", "not one">>, <<"missing", "not one">>}}
  \union {[Usual EXCEPT !.chains = c, !.watermark = w, !.files = f] :
            c \in {"none", "whole", "broken"}, w \in {"none", "whole", "broken"},
            f \in {<<"b">>, <<"a", "b">>}}
  \union {[Usual EXCEPT !.command = "extract", !.files = f, !.showTrust = w, !.json = j, !.help = h] :
            f \in {<< >>, <<"a">>, <<"a", "b">>}, w \in BOOLEAN, j \in BOOLEAN, h \in BOOLEAN}
MCDisk ==
  [p \in Paths |->
     CASE p = "a" -> [media |-> "there", beside |-> "there", anchored |-> TRUE]
       [] p = "b" -> [media |-> "there", beside |-> "missing", anchored |-> FALSE]
       [] OTHER -> [media |-> "missing", beside |-> "unreadable", anchored |-> TRUE]]
\* The tool asks no log about a key, and without that answer no verdict is green.
MCVerdicts ==
  { [outcome |-> "authentic", recomputed |-> TRUE, ceiling |-> "amber"],
    [outcome |-> "verified_clip", recomputed |-> TRUE, ceiling |-> "amber"],
    [outcome |-> "verified_clip", recomputed |-> FALSE, ceiling |-> "amber"],
    [outcome |-> "tampered", recomputed |-> TRUE, ceiling |-> "none"] }
MCShipped == [logs |-> "whole", tsa |-> "whole", chains |-> "whole"]
=============================================================================
