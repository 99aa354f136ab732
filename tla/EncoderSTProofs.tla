-------------------------- MODULE EncoderSTProofs ---------------------------
(***************************************************************************)
(* The single-threaded encoder, for every number of strips, calls and      *)
(* exceptions: it is type correct, and every step keeps what EncoderSpec   *)
(* promises the caller.                                                    *)
(***************************************************************************)
EXTENDS EncoderST, SequenceLemmas

\* What enc holds of a call that began with it empty, when n strips are encoded:
\* each was coded from its own rows, and the predictors come from the one before.
Piece(i) == IF i = 1 THEN Header(FALSE) ELSE Scan(i - 2, i - 2, i - 3)
Stream(n) == [i \in 1 .. n + 1 |-> Piece(i)]

\* Where the loop stands.
Loop ==
  /\ mpc \in {"read", "encode"} => cur \in Strip
  /\ mpc = "encode" => input = cur
  /\ mpc = "finalize" => cur = NumStrips /\ ~torn

\* Unless the last call threw, enc holds this call's header and strips and no more.
Unspoilt ==
  ~afterThrow =>
    /\ ~torn
    /\ mpc \in {"idle", "header", "dead"} => enc = <<>>
    /\ mpc \in {"read", "encode", "finalize"} => enc = Stream(cur)
    /\ mpc \in {"read", "encode"} => prev_dc = cur - 1

TypeInv == TypeOK /\ Loop

\* TypeOK without its flags.
Shape ==
  /\ mpc \in {"idle", "header", "read", "encode", "finalize", "dead"}
  /\ cur \in 0 .. NumStrips
  /\ input \in Strip \cup {NoStrip}
  /\ prev_dc \in Strip \cup {NoStrip}
  /\ enc \in Seq(Item)
  /\ codestream \in Seq(Item)
  /\ outcome \in {"none", "running", "returned", "threw", "taken"}
  /\ invokes \in Nat
  /\ throws \in Nat

\* The header, the markers and the scans are items of a codestream.
LEMMA ItemsTyped ==
  /\ Header(FALSE) \in Item
  /\ EOI \in Item
  /\ \A s \in Strip \cup {NoStrip} : Partial(s) \in Item
  /\ \A s \in Strip : \A r, p \in Strip \cup {NoStrip} : Scan(s, r, p) \in Item
  BY DEF Header, EOI, Partial, Scan, Item

\* A stream to which an item is appended is a stream, and not empty.
LEMMA AppendItem ==
  ASSUME NEW s \in Seq(Item), NEW x \in Item
  PROVE  Append(s, x) \in Seq(Item) /\ Append(s, x) # <<>>
  BY AppendProperties

\* The single-threaded encoder starts type correct.
LEMMA InitTypeInv == Init => TypeInv
  <1> SUFFICES ASSUME Init PROVE TypeInv
    OBVIOUS
  <1>1. torn \in BOOLEAN /\ afterThrow \in BOOLEAN
    BY DEF Init
  <1>2. Shape
    BY NumStripsAssumption DEF Init, Shape
  <1>3. Loop
    BY DEF Init, Loop
  <1> QED
    BY <1>1, <1>2, <1>3 DEF TypeInv, TypeOK, Shape

\* Every step of the single-threaded encoder keeps its types and the shape of its
\* stream.
LEMMA NextTypeInv == TypeInv /\ [Next]_vars => TypeInv'
  <1> SUFFICES ASSUME TypeInv, [Next]_vars PROVE TypeInv'
    OBVIOUS
  <1>n. NumStrips \in Nat \ {0}
    BY NumStripsAssumption
  <1>b. torn' \in BOOLEAN /\ afterThrow' \in BOOLEAN
    BY Zenon DEF TypeInv, TypeOK, Next, InCall, Invoke, CreateMainheader, CreateMainheaderThrows, ReadStrip, EncodeStrip, EncodeStripThrows,
           Finalize, FinalizeThrows, GetCodestream, Destroy, Dead, vars
  <1>c. Shape /\ Loop
    BY DEF TypeInv, TypeOK, Shape
  <1> SUFFICES Shape' /\ Loop'
    BY <1>b DEF TypeInv, TypeOK, Shape
  <1> USE DEF Shape
  <1>0. CASE Invoke
    BY <1>0, <1>c DEF Invoke, Loop
  <1>1. CASE CreateMainheader
    <2>1. enc' \in Seq(Item)
      BY <1>1, <1>c, ItemsTyped, AppendItem, Zenon DEF CreateMainheader
    <2>2. 0 \in Strip /\ 0 \in 0 .. NumStrips
      BY <1>n DEF Strip
    <2>3. Loop'
      BY <1>1, <2>2, Zenon DEF CreateMainheader, Loop
    <2>4. /\ mpc' = "read" /\ cur' = 0 /\ prev_dc' = NoStrip
          /\ UNCHANGED <<input, codestream, outcome, invokes, throws>>
      BY <1>1 DEF CreateMainheader
    <2> QED
      BY <1>c, <2>1, <2>2, <2>3, <2>4
  <1>9. CASE CreateMainheaderThrows
    <2>1. enc' \in Seq(Item)
      BY <1>9, <1>c, ItemsTyped, AppendItem, Zenon DEF CreateMainheaderThrows
    <2> QED
      BY <1>9, <1>c, <2>1 DEF CreateMainheaderThrows, Loop
  <1>2. CASE ReadStrip
    BY <1>2, <1>c DEF ReadStrip, Loop
  <1>3. CASE EncodeStrip
    <2>1. cur \in Strip /\ input = cur
      BY <1>3, <1>c DEF EncodeStrip, Loop
    <2>2. EncodedStrip \in Item
      BY <1>c, <2>1, ItemsTyped, Zenon DEF EncodedStrip
    <2>3. enc' \in Seq(Item)
      BY <1>3, <1>c, <2>2, AppendItem, Zenon DEF EncodeStrip
    <2>4. cur' \in 0 .. NumStrips /\ (cur' < NumStrips => cur' \in Strip)
                                  /\ (~ (cur' < NumStrips) => cur' = NumStrips)
      BY <1>3, <1>n, <2>1 DEF EncodeStrip, Strip
    <2>5. Loop'
      BY <1>3, <2>4, Zenon DEF EncodeStrip, Loop
    <2>6. mpc' \in {"read", "finalize"}
      BY <1>3 DEF EncodeStrip
    <2>7. UNCHANGED <<input, codestream, outcome, invokes, throws>> /\ prev_dc' = input
      BY <1>3 DEF EncodeStrip
    <2> QED
      BY <1>c, <2>3, <2>4, <2>5, <2>6, <2>7
  <1>4. CASE EncodeStripThrows
    <2>1. enc' \in Seq(Item)
      BY <1>4, <1>c, ItemsTyped, AppendItem, Zenon DEF EncodeStripThrows, Loop
    <2> QED
      BY <1>4, <1>c, <2>1 DEF EncodeStripThrows, Loop
  <1>5. CASE Finalize
    <2>1. codestream' \in Seq(Item) /\ enc' \in Seq(Item)
      BY <1>5, <1>c, ItemsTyped DEF Finalize
    <2> QED
      BY <1>5, <1>c, <2>1 DEF Finalize, Loop
  <1>6. CASE FinalizeThrows
    <2>1. enc' \in Seq(Item)
      BY <1>6, <1>c, ItemsTyped, AppendItem, Zenon DEF FinalizeThrows
    <2> QED
      BY <1>6, <1>c, <2>1 DEF FinalizeThrows, Loop
  <1>7. CASE GetCodestream \/ Destroy
    <2>1. Loop'
      BY <1>7, <1>c, Zenon DEF GetCodestream, Destroy, Loop
    <2>2. <<>> \in Seq(Item)
      OBVIOUS
    <2>3. /\ mpc' \in {"idle", "dead"} /\ codestream' \in {<<>>, codestream}
          /\ outcome' \in {"taken", outcome}
          /\ UNCHANGED <<cur, input, prev_dc, enc, invokes, throws>>
      BY <1>7 DEF GetCodestream, Destroy
    <2> QED
      BY <1>c, <2>1, <2>2, <2>3
  <1>8. CASE UNCHANGED vars
    <2>1. Loop'
      BY <1>8, <1>c, Zenon DEF vars, Loop
    <2>2. UNCHANGED <<mpc, cur, input, prev_dc, enc, codestream, outcome, invokes, throws>>
      BY <1>8 DEF vars
    <2> QED
      BY <1>c, <2>1, <2>2
  <1> QED
    BY <1>0, <1>1, <1>2, <1>3, <1>4, <1>5, <1>6, <1>7, <1>8, <1>9 DEF Next, InCall, Dead

\* In every reachable state the variables have their types, the codestream handed
\* to the caller included.
THEOREM SingleThreadTyped == Spec => []TypeOK
  <1>1. TypeInv => TypeOK
    BY DEF TypeInv
  <1> QED
    BY InitTypeInv, NextTypeInv, <1>1, PTL DEF Spec

-----------------------------------------------------------------------------
(* The promise. *)

\* The stream of n strips is n + 1 items: the header and the strips.
LEMMA StreamTyped ==
  ASSUME NEW n \in Nat
  PROVE  LET S == {Stream(n)[i] : i \in 1 .. n + 1} \cup {EOI}
         IN Stream(n) \in [1 .. n + 1 -> S] /\ Stream(n) \in Seq(S) /\ Len(Stream(n)) = n + 1
  <1> DEFINE S == {Stream(n)[i] : i \in 1 .. n + 1} \cup {EOI}
  <1>1. Stream(n) \in [1 .. n + 1 -> S]
    BY DEF Stream
  <1>2. n + 1 \in Nat
    OBVIOUS
  <1> HIDE DEF S
  <1>3. Stream(n) \in Seq(S) /\ Len(Stream(n)) = n + 1
    BY <1>1, <1>2, FunctionIsSeq
  <1> QED
    BY <1>1, <1>3 DEF S

\* The scan of the next strip makes the stream one strip longer.
LEMMA StreamGrows ==
  ASSUME NEW n \in Nat
  PROVE  Append(Stream(n), Scan(n, n, n - 1)) = Stream(n + 1)
  <1> DEFINE g == Stream(n + 1)
             S == {g[i] : i \in 1 .. (n + 1) + 1} \cup {EOI}
  <1>0. n + 1 \in Nat
    OBVIOUS
  <1>1. g \in [1 .. (n + 1) + 1 -> S]
    BY <1>0, StreamTyped
  <1>2. g[(n + 1) + 1] = Scan(n, n, n - 1)
    <2>1. n + 2 # 1 /\ (n + 2) - 2 = n /\ (n + 2) - 3 = n - 1
      OBVIOUS
    <2>2. Piece(n + 2) = Scan(n, n, n - 1)
      BY <2>1, Zenon DEF Piece
    <2>3. g[(n + 1) + 1] = Piece(n + 2)
      BY DEF Stream
    <2> QED
      BY <2>2, <2>3
  <1>3. Stream(n) = [i \in 1 .. n + 1 |-> g[i]]
    BY DEF Stream
  <1> HIDE DEF g, S
  <1>4. Append(Stream(n), g[(n + 1) + 1]) = g
    BY <1>0, <1>1, <1>3, PrefixAndLast
  <1> QED
    BY <1>2, <1>4 DEF g

\* The header alone is the stream of no strips.
LEMMA StreamStarts == Append(<<>>, Header(FALSE)) = Stream(0)
  <1>1. Piece(1) = Header(FALSE)
    BY Zenon DEF Piece
  <1>2. Append(<<>>, Piece(1)) = Stream(0)
    BY DEF Stream
  <1> QED
    BY <1>1, <1>2, Zenon

\* As long as no call has thrown, enc holds exactly the strips coded so far.
LEMMA NextUnspoilt == TypeInv /\ Unspoilt /\ [Next]_vars => Unspoilt'
  <1> SUFFICES ASSUME TypeInv, Unspoilt, [Next]_vars, ~afterThrow' PROVE Unspoilt'
    BY DEF Unspoilt
  <1>0. CASE Invoke
    BY <1>0 DEF Invoke, Unspoilt
  <1>1. CASE CreateMainheader
    <2>1. enc = <<>> /\ ~torn
      BY <1>1 DEF CreateMainheader, Unspoilt
    <2>2. enc' = Stream(0) /\ cur' = 0
      BY <1>1, <2>1, StreamStarts, Zenon DEF CreateMainheader
    <2>4. prev_dc' = 0 - 1
      BY <1>1 DEF CreateMainheader, NoStrip
    <2>3. ~torn' /\ mpc' = "read"
      BY <1>1, <2>1 DEF CreateMainheader
    <2> QED
      BY <2>2, <2>3, <2>4 DEF Unspoilt
  <1>2. CASE ReadStrip
    BY <1>2 DEF ReadStrip, Unspoilt
  <1>3. CASE EncodeStrip
    <2>1. cur \in Nat /\ input = cur /\ ~torn /\ enc = Stream(cur) /\ prev_dc = cur - 1
      BY <1>3, NumStripsAssumption DEF EncodeStrip, Unspoilt, TypeInv, TypeOK, Loop
    <2>2. EncodedStrip = Scan(cur, cur, cur - 1)
      BY <2>1, Zenon DEF EncodedStrip
    <2>5. enc' = Append(enc, EncodedStrip) /\ cur' = cur + 1 /\ prev_dc' = input
      BY <1>3 DEF EncodeStrip
    <2>6. Append(Stream(cur), Scan(cur, cur, cur - 1)) = Stream(cur + 1)
      BY <2>1, StreamGrows
    <2>7. enc' = Stream(cur')
      BY <2>1, <2>2, <2>5, <2>6, Zenon
    <2>8. prev_dc' = cur' - 1
      BY <2>1, <2>5
    <2>4. ~torn' /\ mpc' \in {"read", "finalize"}
      BY <1>3 DEF EncodeStrip
    <2> QED
      BY <2>4, <2>7, <2>8 DEF Unspoilt
  <1>4. CASE Finalize
    BY <1>4 DEF Finalize, Unspoilt, TypeInv, Loop
  <1>5. CASE CreateMainheaderThrows \/ EncodeStripThrows \/ FinalizeThrows
    BY <1>5 DEF CreateMainheaderThrows, EncodeStripThrows, FinalizeThrows
  <1>6. CASE GetCodestream \/ Destroy
    BY <1>6 DEF GetCodestream, Destroy, Unspoilt
  <1>7. CASE UNCHANGED vars
    BY <1>7 DEF vars, Unspoilt
  <1> QED
    BY <1>0, <1>1, <1>2, <1>3, <1>4, <1>5, <1>6, <1>7 DEF Next, InCall, Dead

\* A whole stream is one a decoder recovers the image from.
LEMMA WholeStreamDecodes == Decodes(Append(Stream(NumStrips), EOI))
  <1> DEFINE n == NumStrips
             cs == Append(Stream(n), EOI)
             S == {Stream(n)[i] : i \in 1 .. n + 1} \cup {EOI}
  <1>1. n \in Nat \ {0}
    BY NumStripsAssumption
  <1>2. Stream(n) \in Seq(S) /\ Len(Stream(n)) = n + 1 /\ EOI \in S
    BY <1>1, StreamTyped
  <1>3. /\ Len(cs) = n + 2
        /\ cs[n + 2] = EOI
        /\ \A i \in 1 .. n + 1 : cs[i] = Piece(i)
    <2> HIDE DEF S
    <2>1. /\ Len(cs) = (n + 1) + 1
          /\ cs[(n + 1) + 1] = EOI
          /\ \A i \in 1 .. n + 1 : cs[i] = Stream(n)[i]
      BY <1>2, AppendProperties
    <2> QED
      BY <1>1, <2>1 DEF Stream
  <1> HIDE DEF cs, n
  <1>4. /\ cs[1].kind = "header" /\ ~ cs[1].dri
        /\ \A i \in 2 .. n + 1 : /\ cs[i].kind = "scan"
                                 /\ cs[i].strip = i - 2
                                 /\ cs[i].rows = i - 2
                                 /\ cs[i].pred = i - 3
    <2>1. cs[1].kind = "header" /\ ~ cs[1].dri
      <3>1. 1 \in 1 .. n + 1
        BY <1>1
      <3>2. cs[1] = Header(FALSE)
        BY <1>3, <3>1, Zenon DEF Piece
      <3>3. Header(FALSE).kind = "header"
        BY DEF Header
      <3>4. Header(FALSE).dri = FALSE
        BY DEF Header
      <3> QED
        BY <3>2, <3>3, <3>4, Zenon
    <2>2. ASSUME NEW i \in 2 .. n + 1 PROVE cs[i] = Scan(i - 2, i - 2, i - 3)
      <3>1. i # 1 /\ i \in 1 .. n + 1
        BY <1>1
      <3> QED
        BY <1>3, <3>1, Zenon DEF Piece
    <2>3. \A i \in 2 .. n + 1 : /\ cs[i].kind = "scan"
                                 /\ cs[i].strip = i - 2
                                 /\ cs[i].rows = i - 2
                                 /\ cs[i].pred = i - 3
      <3> TAKE i \in 2 .. n + 1
      <3>1. cs[i] = Scan(i - 2, i - 2, i - 3)
        BY <2>2
      <3>2. \A s, r, p : /\ Scan(s, r, p).kind = "scan" /\ Scan(s, r, p).strip = s
                         /\ Scan(s, r, p).rows = r /\ Scan(s, r, p).pred = p
        BY DEF Scan
      <3> QED
        BY <3>1, <3>2
    <2> QED
      BY <2>1, <2>3, Zenon
  <1>5. ASSUME NEW i \in 2 .. n + 2
        PROVE  Cardinality(ScansBefore(cs, i)) = i - 2
    <2>1. ScansBefore(cs, i) = 2 .. i - 1
      BY <1>1, <1>4 DEF ScansBefore
    <2>2. 2 \in Int /\ i - 1 \in Int /\ 2 <= i
      BY <1>1
    <2> QED
      BY <1>1, <2>1, <2>2, FS_Interval
  <1>6. ASSUME NEW i \in 2 .. n + 1
        PROVE  cs[i].pred = PredictorAt(cs, i)
    <2>1. CASE i = 2
      BY <1>1, <1>4, <2>1 DEF PredictorAt, NoStrip
    <2>2. CASE i # 2
      <3>1. i - 1 \in 2 .. n + 1
        BY <1>1, <2>2
      <3> QED
        BY <1>1, <1>4, <3>1 DEF PredictorAt
    <2> QED
      BY <2>1, <2>2
  <1>7. \A i \in 2 .. Len(cs) - 1 : /\ cs[i].kind = "scan"
                                    /\ cs[i].strip = cs[i].rows
                                    /\ cs[i].rows = Cardinality(ScansBefore(cs, i))
                                    /\ cs[i].pred = PredictorAt(cs, i)
    BY <1>1, <1>3, <1>4, <1>5, <1>6
  <1>8. Cardinality(ScansBefore(cs, Len(cs))) = n
    BY <1>1, <1>3, <1>5
  <1>9. Len(cs) >= 3 /\ cs[Len(cs)] = EOI
    BY <1>1, <1>3
  <1> QED
    BY <1>4, <1>7, <1>8, <1>9, Zenon DEF Decodes, cs, n

\* The specification's Decodes is this module's.
LEMMA SameDecodes == \A cs : Promise!Decodes(cs) <=> Decodes(cs)
  BY Zenon DEF Promise!Decodes, Promise!ScansBefore, Promise!RestartsBefore, Promise!PredictorAt,
      Promise!EOI, Promise!NoStrip, Promise!Cardinality, Cardinality,
      Decodes, ScansBefore, RestartsBefore, PredictorAt, EOI, NoStrip

\* Every step of the single-threaded encoder is a step of the promise, or a
\* stutter.
LEMMA StepKeepsPromise ==
  ASSUME TypeInv, Unspoilt, [Next]_vars
  PROVE  [Promise!Next]_(Promise!specVars)
  <1> USE DEF Promise!Next, Promise!specVars
  <1>1. CASE Invoke
    BY <1>1 DEF Invoke, Promise!Invoke
  <1>2. CASE CreateMainheader \/ ReadStrip \/ EncodeStrip
    BY <1>2 DEF CreateMainheader, ReadStrip, EncodeStrip
  <1>3. CASE CreateMainheaderThrows \/ EncodeStripThrows
    BY <1>3 DEF CreateMainheaderThrows, EncodeStripThrows, Promise!Fail
  <1>4. CASE FinalizeThrows
    BY <1>4 DEF FinalizeThrows, Promise!Fail
  <1>5. CASE Finalize
    <2>1. codestream' # <<>>
      BY <1>5, ItemsTyped, AppendItem DEF Finalize, TypeInv, TypeOK
    <2>2. afterThrow \/ Decodes(codestream')
      BY <1>5, WholeStreamDecodes DEF Finalize, TypeInv, Loop, Unspoilt
    <2> QED
      BY <1>5, <2>1, <2>2, SameDecodes DEF Finalize, Promise!Return
  <1>6. CASE GetCodestream
    BY <1>6 DEF GetCodestream, Promise!GetCodestream
  <1>7. CASE Destroy
    BY <1>7 DEF Destroy, Promise!Destroy
  <1>8. CASE UNCHANGED vars
    BY <1>8 DEF vars
  <1> QED
    BY <1>1, <1>2, <1>3, <1>4, <1>5, <1>6, <1>7, <1>8 DEF Next, InCall, Dead

\* However many strips, calls and exceptions: a call of invoke() that returns leaves
\* a codestream a decoder recovers the image from, unless the call before it threw;
\* the one after that is sound again.  (That every call returns is not proved here.)
THEOREM SingleThreadKeepsPromise ==
  Spec => Promise!Init /\ [][Promise!Next]_(Promise!specVars)
  <1>1. Init => TypeInv /\ Unspoilt /\ Promise!Init
    BY InitTypeInv DEF Init, Unspoilt, Promise!Init
  <1>2. TypeInv /\ Unspoilt /\ [Next]_vars => (TypeInv /\ Unspoilt)'
    BY NextTypeInv, NextUnspoilt
  <1>3. TypeInv /\ Unspoilt /\ [Next]_vars => [Promise!Next]_(Promise!specVars)
    BY StepKeepsPromise
  <1> QED
    BY <1>1, <1>2, <1>3, PTL DEF Spec
=============================================================================
