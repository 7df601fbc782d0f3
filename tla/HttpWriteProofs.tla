--------------------------- MODULE HttpWriteProofs ---------------------------
(***************************************************************************)
(* Proofs about HttpWrite: for files, headers and socket buffers of every  *)
(* size, an answer whose header is cut once is sent byte by byte in order, *)
(* and the counters, m_iv and the mapping agree.                           *)
(***************************************************************************)
EXTENDS HttpWrite, SequenceTheorems, TLAPS

(* The inductive invariant. *)

\* How many bytes m_iv describes.
OfferedLen == iv0.len + (IF m_iv_count = 2 THEN iv1.len ELSE 0)

\* m_iv describes the rest of the answer, header first.
Follows ==
    /\ Len(sent) = bytes_have_send
    /\ bytes_have_send + bytes_to_send = Total
    /\ cuts = <<>> /\ bytes_have_send < HeaderLen => bytes_have_send = 0
    /\ bytes_have_send < HeaderLen =>
           /\ iv0 = [base |-> bytes_have_send, len |-> HeaderLen - bytes_have_send]
           /\ m_iv_count = 2 => iv1 = [base |-> 0, len |-> st_size]
    /\ bytes_have_send >= HeaderLen =>
           /\ iv0.len = 0
           /\ iv1 = [base |-> bytes_have_send - HeaderLen, len |-> bytes_to_send]

\* However m_iv has been updated, an answer in progress is not finished and never offers
\* more than is to be sent.
Progress ==
    Sending =>
        /\ bytes_to_send >= 1
        /\ m_iv_count \in {1, 2}
        /\ OfferedLen <= bytes_to_send
        /\ cuts # <<>> => cuts[Len(cuts)] <= bytes_have_send
        /\ FewCuts => Follows

\* A file is mapped for the answer in progress, or was left behind.
Mapping ==
    /\ Sending /\ m_iv_count = 2 => m_file_address # NoFile /\ st_size = Size[m_file_address]
    /\ m_file_address # NoFile /\ ~cut => Sending /\ m_iv_count = 2

Fresh == pc = "reading" => bytes_have_send = 0

SendInv == TypeOK /\ Fresh /\ Mapping /\ Progress /\ RightBytes

-----------------------------------------------------------------------------
(* What m_iv offers. *)

LEMMA BytesAre ==
    ASSUME NEW v, v.base \in Int, v.len \in Nat, NEW first \in Nat
    PROVE  /\ Bytes(v, first) \in Seq(Nat \cup {Garbage})
           /\ Len(Bytes(v, first)) = v.len
           /\ v.base >= 0 => \A i \in 1..v.len : Bytes(v, first)[i] = first + v.base + i - 1
<1>1. Bytes(v, first) \in [1..v.len -> Nat \cup {Garbage}]
  <2>1. \A i \in 1..v.len : /\ v.base + i - 1 \in Int
                            /\ v.base + i - 1 >= 0 => first + (v.base + i - 1) \in Nat
    OBVIOUS
  <2> QED BY <2>1 DEF Bytes
<1>2. Bytes(v, first) \in Seq(Nat \cup {Garbage}) BY <1>1, SeqDef
<1>3. Len(Bytes(v, first)) = v.len BY <1>1, <1>2, LenProperties
<1>4. v.base >= 0 => \A i \in 1..v.len : Bytes(v, first)[i] = first + v.base + i - 1 BY DEF Bytes
<1> QED BY <1>2, <1>3, <1>4

\* The rest of the header and the part of the file, one after the other.
LEMMA OfferedIs ==
    ASSUME TypeOK
    PROVE  /\ Offered \in Seq(Nat \cup {Garbage})
           /\ OfferedLen \in Nat /\ Len(Offered) = OfferedLen
           /\ iv1.base >= 0 =>
                  \A i \in 1..OfferedLen :
                      Offered[i] = IF i <= iv0.len THEN iv0.base + i - 1
                                   ELSE HeaderLen + iv1.base + (i - iv0.len) - 1
<1> DEFINE h == Bytes(iv0, 0)
           f == IF m_iv_count = 2 THEN Bytes(iv1, HeaderLen) ELSE <<>>
           l1 == IF m_iv_count = 2 THEN iv1.len ELSE 0
           Byte == Nat \cup {Garbage}
<1>1. iv0.base \in Nat /\ iv0.len \in Nat /\ iv1.base \in Int /\ iv1.len \in Nat /\ l1 \in Nat
  BY DEF TypeOK
<1>2. /\ h \in Seq(Byte) /\ Len(h) = iv0.len
      /\ \A i \in 1..iv0.len : h[i] = iv0.base + i - 1
  BY <1>1, BytesAre
<1>3. /\ f \in Seq(Byte) /\ Len(f) = l1
      /\ iv1.base >= 0 => \A i \in 1..l1 : f[i] = HeaderLen + iv1.base + i - 1
  <2>1. CASE m_iv_count = 2 BY <2>1, <1>1, BytesAre, Parameters
  <2>2. CASE m_iv_count # 2 BY <2>2, EmptySeq
  <2> QED BY <2>1, <2>2
<1>4. Offered = h \o f /\ OfferedLen = iv0.len + l1 BY DEF Offered, OfferedLen
<1> HIDE DEF h, f, l1, Byte
<1>5. /\ Offered \in Seq(Byte) /\ Len(Offered) = iv0.len + l1
      /\ \A i \in 1..(iv0.len + l1) : Offered[i] = IF i <= iv0.len THEN h[i] ELSE f[i - iv0.len]
  <2>1. /\ h \o f \in Seq(Byte) /\ Len(h \o f) = Len(h) + Len(f)
        /\ \A i \in 1 .. Len(h) + Len(f) : (h \o f)[i] = IF i <= Len(h) THEN h[i] ELSE f[i - Len(h)]
    BY <1>2, <1>3, ConcatProperties
  <2> QED BY <2>1, <1>2, <1>3, <1>4
<1>6. ASSUME iv1.base >= 0, NEW i \in 1..(iv0.len + l1)
      PROVE  Offered[i] = IF i <= iv0.len THEN iv0.base + i - 1
                          ELSE HeaderLen + iv1.base + (i - iv0.len) - 1
  <2>1. CASE i <= iv0.len BY <2>1, <1>1, <1>2, <1>5
  <2>2. CASE ~(i <= iv0.len)
    <3>1. i - iv0.len \in 1..l1 BY <2>2, <1>1
    <3> QED BY <3>1, <2>2, <1>3, <1>5, <1>6
  <2> QED BY <2>1, <2>2
<1>7. Offered \in Seq(Nat \cup {Garbage}) BY <1>5 DEF Byte
<1> QED BY <1>1, <1>4, <1>5, <1>6, <1>7

\* As long as m_iv follows the answer, it offers all the rest, each byte at its place.
LEMMA OffersTheRest ==
    ASSUME TypeOK, Follows, m_iv_count \in {1, 2}, bytes_to_send >= 1
    PROVE  /\ OfferedLen = bytes_to_send
           /\ \A i \in 1..bytes_to_send : Offered[i] = bytes_have_send + i - 1
<1> USE Parameters DEF Total, TypeOK, Follows
<1>1. CASE bytes_have_send < HeaderLen
  <2>1. OfferedLen = bytes_to_send BY <1>1 DEF OfferedLen
  <2>2. m_iv_count = 2 => iv1.base = 0 BY <1>1
  <2>3. iv0.base = bytes_have_send /\ iv0.len = HeaderLen - bytes_have_send BY <1>1
  <2>4. CASE m_iv_count = 2 BY <2>1, <2>2, <2>3, <2>4, OfferedIs
  <2>5. CASE m_iv_count = 1
    <3>1. Offered = Bytes(iv0, 0) \o <<>> BY <2>5 DEF Offered
    <3>2. iv0.base \in Nat /\ iv0.len \in Nat /\ iv0.base = 0 + bytes_have_send BY <2>3
    <3>3. /\ Bytes(iv0, 0) \in Seq(Nat \cup {Garbage})
          /\ \A i \in 1..iv0.len : Bytes(iv0, 0)[i] = 0 + iv0.base + i - 1
      BY <3>2, BytesAre
    <3>4. \A i \in 1..(HeaderLen - bytes_have_send) : Bytes(iv0, 0)[i] = bytes_have_send + i - 1
      BY <3>2, <3>3, <2>3
    <3>5. Offered = Bytes(iv0, 0) BY <3>1, <3>3, ConcatEmptySeq
    <3>6. bytes_to_send = HeaderLen - bytes_have_send BY <2>5
    <3> QED BY <2>1, <3>4, <3>5, <3>6
  <2> QED BY <2>4, <2>5
<1>2. CASE bytes_have_send >= HeaderLen
  <2>1. m_iv_count = 2 BY <1>2
  <2>2. iv0.len = 0 /\ iv1.base = bytes_have_send - HeaderLen /\ iv1.len = bytes_to_send BY <1>2
  <2>3. OfferedLen = bytes_to_send BY <2>1, <2>2 DEF OfferedLen
  <2> QED BY <1>2, <2>2, <2>3, OfferedIs
<1> QED BY <1>1, <1>2

-----------------------------------------------------------------------------
(* SendInv *)

LEMMA InitSend == Init => SendInv
<1> SUFFICES ASSUME Init PROVE SendInv OBVIOUS
<1> USE Parameters DEF Init, NoPart
<1>1. TypeOK
  <2>1. m_linger \in BOOLEAN /\ cut \in BOOLEAN BY Zenon
  <2>2. sent \in Seq(Nat \cup {Garbage}) /\ cuts \in Seq(Nat) OBVIOUS
  <2>3. room \in 0..RoomMax OBVIOUS
  <2> QED BY <2>1, <2>2, <2>3 DEF TypeOK
<1> QED BY <1>1 DEF SendInv, Fresh, Mapping, Progress, Sending, RightBytes

\* A new answer: everything is still to be sent.
LEMMA AnswerStep ==
    ASSUME SendInv, pc = "reading", NEW count \in {1, 2}, NEW size \in Nat,
           Answer(HeaderLen + (IF count = 2 THEN size ELSE 0), count),
           m_file_address' \in Files \cup {NoFile}, st_size' \in Nat, cut' \in BOOLEAN,
           iv1' \in [base : Int, len : Nat],
           count = 2 => /\ st_size' = size /\ iv1' = [base |-> 0, len |-> size]
                        /\ m_file_address' # NoFile /\ size = Size[m_file_address'],
           m_file_address' # NoFile /\ ~cut' => count = 2
    PROVE  SendInv'
<1> USE Parameters DEF SendInv, Answer
<1>1. TypeOK'
  <2>1. m_linger' \in BOOLEAN BY Zenon
  <2>2. /\ version' = version /\ room' = room /\ m_iv_count' = count
        /\ bytes_to_send' = HeaderLen + (IF count = 2 THEN size ELSE 0)
        /\ bytes_have_send' = bytes_have_send /\ sent' = <<>> /\ cuts' = <<>>
        /\ pc' = "blocked" /\ iv0' = [base |-> 0, len |-> HeaderLen]
    OBVIOUS
  <2>3. HeaderLen \in Nat /\ bytes_to_send' \in Nat BY <2>2
  <2> HIDE DEF Answer
  <2> QED BY <2>1, <2>2, <2>3 DEF TypeOK
<1>2. /\ iv0' = [base |-> 0, len |-> HeaderLen] /\ m_iv_count' = count
      /\ bytes_have_send' = 0 /\ sent' = <<>> /\ cuts' = <<>> /\ pc' = "blocked"
      /\ bytes_to_send' = HeaderLen + (IF count = 2 THEN size ELSE 0)
  BY DEF Fresh
<1>3. Fresh' /\ Mapping' /\ RightBytes' BY <1>2 DEF Fresh, Mapping, Sending, RightBytes
<1>4. Follows'
  <2>1. CASE count = 2 BY <2>1, <1>2 DEF Follows, Total
  <2>2. CASE count = 1 BY <2>2, <1>2 DEF Follows, Total
  <2> QED BY <2>1, <2>2
<1>5. Progress' BY <1>2, <1>4 DEF Progress, OfferedLen
<1> QED BY <1>1, <1>3, <1>4, <1>5

\* A step that leaves the answer alone.
LEMMA LeftAlone ==
    ASSUME SendInv, TypeOK', Fresh', Mapping',
           UNCHANGED <<version, iov, sent, cuts>>,
           Sending' => Sending /\ UNCHANGED st_size
    PROVE  SendInv'
<1> USE DEF SendInv, iov
<1>1. FewCuts' <=> FewCuts BY DEF FewCuts
<1>2. RightBytes' BY <1>1 DEF RightBytes
<1>3. ASSUME Sending' PROVE (Follows' <=> Follows) /\ OfferedLen' = OfferedLen
  BY <1>3 DEF Follows, Total, OfferedLen
<1>4. Progress' BY <1>1, <1>3 DEF Progress
<1> QED BY <1>2, <1>4

-----------------------------------------------------------------------------
(* One writev(): n bytes, have in all. *)

Taken == IF Len(Offered) < room THEN Len(Offered) ELSE room
Have == bytes_have_send + Taken

LEMMA TakenIs ==
    ASSUME SendInv, Writev
    PROVE  /\ Sending /\ Taken \in Nat /\ Taken <= OfferedLen /\ Taken <= bytes_to_send
           /\ Have \in Nat /\ OfferedLen \in Nat
           /\ FewCuts => Taken >= 1
<1>1. Sending BY DEF Writev, Sending
<1>2. OfferedLen \in Nat /\ Len(Offered) = OfferedLen BY OfferedIs DEF SendInv
<1>3. room \in Nat /\ bytes_have_send \in Nat /\ bytes_to_send \in Nat
  BY Parameters DEF SendInv, TypeOK
<1>4. OfferedLen <= bytes_to_send BY <1>1 DEF SendInv, Progress
<1>5. FewCuts => OfferedLen >= 1
  BY <1>1, OffersTheRest DEF SendInv, Progress
<1>6. FewCuts => room > 0
  <2>1. Offered = <<>> => Len(Offered) = 0 BY EmptySeq
  <2> QED BY <2>1, <1>2, <1>3, <1>5 DEF Writev
<1> QED BY <1>1, <1>2, <1>3, <1>4, <1>5, <1>6 DEF Taken, Have

\* A header that has been cut too often stays so: the update of m_iv was right if it is
\* right later in the answer.
LEMMA FewBefore ==
    ASSUME SendInv, Writev
    PROVE  FewCuts' => FewCuts
<1>1. cuts' = cuts \/ cuts' = Append(cuts, Have) BY DEF Writev, Have, Taken
<1>2. version' = version BY DEF Writev
<1>3. cuts \in Seq(Nat) /\ HeaderLen \in Nat /\ bytes_have_send \in Nat
  BY Parameters DEF SendInv, TypeOK
<1>4. cuts # <<>> => cuts[Len(cuts)] <= bytes_have_send /\ cuts[Len(cuts)] \in Nat
  BY <1>3, TakenIs DEF SendInv, Progress
<1>5. CASE cuts' = cuts BY <1>2, <1>5 DEF FewCuts
<1>6. CASE cuts' = Append(cuts, Have)
  <2>1. Len(cuts') = Len(cuts) + 1 /\ cuts'[Len(cuts')] = Have /\ Len(cuts) \in Nat
    BY <1>3, <1>6, TakenIs
  <2>2. Have >= bytes_have_send BY <1>3, TakenIs DEF Have
  <2>3. CASE Len(cuts) <= 1 BY <2>3 DEF FewCuts
  <2>4. CASE Len(cuts) > 1
    <3>1. cuts # <<>> BY <2>4
    <3> QED BY <3>1, <2>1, <2>2, <2>4, <1>2, <1>3, <1>4, TakenIs DEF FewCuts
  <2> QED BY <2>1, <2>3, <2>4
<1> QED BY <1>1, <1>5, <1>6

\* The bytes that go out are the next ones of the answer.
LEMMA RightStep ==
    ASSUME SendInv, Writev, FewCuts'
    PROVE  /\ Len(sent') = Have
           /\ \A i \in DOMAIN sent' : sent'[i] = i - 1
<1> DEFINE part == SubSeq(Offered, 1, Taken)
           Byte == Nat \cup {Garbage}
<1>1. FewCuts /\ Sending BY FewBefore, TakenIs
<1>2. Follows /\ m_iv_count \in {1, 2} /\ bytes_to_send >= 1 /\ RightBytes /\ TypeOK
  BY <1>1 DEF SendInv, Progress
<1>3. \A i \in 1..bytes_to_send : Offered[i] = bytes_have_send + i - 1 BY <1>2, OffersTheRest
<1>4. Taken \in Nat /\ Taken <= bytes_to_send /\ Taken <= Len(Offered)
      /\ bytes_have_send \in Nat /\ bytes_to_send \in Nat
  BY TakenIs, OfferedIs, <1>2 DEF TypeOK
<1>5. part \in Seq(Byte) /\ Len(part) = Taken /\ \A i \in 1..Taken : part[i] = Offered[i]
  <2>1. Offered \in Seq(Byte) BY <1>2, OfferedIs
  <2>2. \A i \in 1..Taken : Offered[i] \in Byte BY <2>1, <1>4, ElementOfSeq
  <2> HIDE DEF Byte
  <2>3. /\ part \in Seq(Byte) /\ Len(part) = IF 1 <= Taken THEN Taken - 1 + 1 ELSE 0
        /\ \A i \in 1 .. Taken - 1 + 1 : part[i] = Offered[1 + i - 1]
    BY <2>2, <1>4, SubSeqProperties
  <2> QED BY <2>3, <1>4
<1>6. sent' = sent \o part BY DEF Writev, Taken
<1>7. sent \in Seq(Byte) /\ Len(sent) = bytes_have_send /\ DOMAIN sent = 1..bytes_have_send
  BY <1>2, LenProperties DEF TypeOK, Follows
<1> HIDE DEF part, Byte
<1>8. /\ sent' \in Seq(Byte) /\ Len(sent') = bytes_have_send + Taken
      /\ \A i \in 1..(bytes_have_send + Taken) :
            sent'[i] = IF i <= bytes_have_send THEN sent[i] ELSE part[i - bytes_have_send]
  BY <1>5, <1>6, <1>7, ConcatProperties
<1>9. DOMAIN sent' = 1..(bytes_have_send + Taken) BY <1>8, LenProperties
<1>10. ASSUME NEW i \in 1..(bytes_have_send + Taken) PROVE sent'[i] = i - 1
  <2>1. CASE i <= bytes_have_send
    BY <2>1, <1>1, <1>2, <1>4, <1>7, <1>8 DEF RightBytes
  <2>2. CASE ~(i <= bytes_have_send)
    <3>1. i - bytes_have_send \in 1..Taken /\ i - bytes_have_send \in 1..bytes_to_send
      BY <2>2, <1>4
    <3>2. part[i - bytes_have_send] = bytes_have_send + (i - bytes_have_send) - 1
      BY <3>1, <1>3, <1>5
    <3>3. sent'[i] = part[i - bytes_have_send] BY <2>2, <1>8
    <3> QED BY <3>2, <3>3, <1>4
  <2> QED BY <2>1, <2>2
<1> QED BY <1>8, <1>9, <1>10 DEF Have

\* The update of m_iv, right or not, never offers more than is left to send.
LEMMA AdvanceTypes ==
    ASSUME SendInv, Writev, Advance(Have, Taken)
    PROVE  /\ iv0' \in [base : Nat, len : Nat] /\ iv1' \in [base : Int, len : Nat]
           /\ iv0'.len + (IF m_iv_count = 2 THEN iv1'.len ELSE 0) <= bytes_to_send - Taken
<1>1. /\ Taken \in Nat /\ Taken <= OfferedLen /\ Taken <= bytes_to_send /\ Taken <= Have
      /\ Have \in Nat /\ OfferedLen <= bytes_to_send /\ bytes_to_send - Taken \in Nat
  BY TakenIs DEF SendInv, TypeOK, Progress, Have
<1>2. iv0 \in [base : Nat, len : Nat] /\ iv1 \in [base : Int, len : Nat] /\ HeaderLen \in Nat
  BY Parameters DEF SendInv, TypeOK
<1>3. CASE Have >= iv0.len
  <2>1. iv0' = [iv0 EXCEPT !.len = 0] /\ iv1' = [base |-> Have - HeaderLen, len |-> bytes_to_send - Taken]
    BY <1>3 DEF Advance
  <2> QED BY <2>1, <1>1, <1>2
<1>4. CASE ~(Have >= iv0.len)
  <2>1. PICK taken \in {Taken, Have} : iv0' = [base |-> Have, len |-> iv0.len - taken]
    BY <1>4 DEF Advance
  <2>2. iv1' = iv1 BY <1>4 DEF Advance
  <2>3. iv0.len - taken \in Nat /\ iv0'.len <= iv0.len - Taken BY <1>1, <1>2, <1>4, <2>1
  <2>4. iv0' \in [base : Nat, len : Nat] BY <2>1, <2>3, <1>1
  <2>5. bytes_to_send \in Nat BY DEF SendInv, TypeOK
  <2>6. iv0.len + (IF m_iv_count = 2 THEN iv1.len ELSE 0) <= bytes_to_send BY <1>1 DEF OfferedLen
  <2>7. CASE m_iv_count = 2 BY <2>2, <2>3, <2>4, <2>5, <2>6, <2>7, <1>1, <1>2
  <2>8. CASE m_iv_count # 2 BY <2>2, <2>3, <2>4, <2>5, <2>6, <2>8, <1>1, <1>2
  <2> QED BY <2>2, <2>4, <2>7, <2>8, <1>2
<1> QED BY <1>3, <1>4

\* ... and is right while the header has been cut but few times.
LEMMA AdvanceFollows ==
    ASSUME SendInv, Writev, FewCuts', bytes_to_send > Taken, Advanced(Have, Taken),
           UNCHANGED st_size
    PROVE  Follows'
<1>1. FewCuts /\ Sending BY FewBefore, TakenIs
<1>2. Follows BY <1>1 DEF SendInv, Progress
<1>3. /\ Taken \in Nat \ {0} /\ Have \in Nat /\ Have = bytes_have_send + Taken
      /\ bytes_have_send \in Nat /\ bytes_to_send \in Nat /\ HeaderLen \in Nat /\ st_size \in Nat
  BY <1>1, TakenIs, Parameters DEF SendInv, TypeOK, Have
<1>4. /\ bytes_have_send' = Have /\ bytes_to_send' = bytes_to_send - Taken
      /\ m_iv_count' = m_iv_count /\ Advance(Have, Taken)
  BY DEF Advanced
<1>5. Len(sent) = bytes_have_send /\ Len(sent') = Have BY <1>2, RightStep DEF Follows
<1>6. Have + bytes_to_send' = Total' BY <1>2, <1>3, <1>4 DEF Follows, Total
<1>7. CASE Have >= HeaderLen
  <2>1. Have >= iv0.len
    <3>1. CASE bytes_have_send < HeaderLen
      <4>1. iv0.len = HeaderLen - bytes_have_send BY <3>1, <1>2 DEF Follows
      <4> QED BY <4>1, <1>3, <1>7
    <3>2. CASE bytes_have_send >= HeaderLen
      <4>1. iv0.len = 0 BY <3>2, <1>2 DEF Follows
      <4> QED BY <4>1, <1>3
    <3> QED BY <3>1, <3>2, <1>3
  <2>2. iv0' = [iv0 EXCEPT !.len = 0] /\ iv1' = [base |-> Have - HeaderLen, len |-> bytes_to_send']
    BY <2>1, <1>4 DEF Advance
  <2>3. iv0'.len = 0 BY <2>2 DEF SendInv, TypeOK
  <2> QED BY <2>2, <2>3, <1>3, <1>4, <1>5, <1>6, <1>7 DEF Follows
<1>8. CASE Have < HeaderLen
  <2>1. bytes_have_send < HeaderLen BY <1>3, <1>8
  <2>2. /\ iv0 = [base |-> bytes_have_send, len |-> HeaderLen - bytes_have_send]
        /\ m_iv_count = 2 => iv1 = [base |-> 0, len |-> st_size]
    BY <2>1, <1>2 DEF Follows
  <2>3. cuts' = Append(cuts, Have)
    <3>1. Taken > 0 /\ Len(sent) + Taken < HeaderLen BY <1>3, <1>5, <1>8
    <3> QED BY <3>1 DEF Writev, Taken, Have
  <2>4. cuts \in Seq(Nat) BY DEF SendInv, TypeOK
  <2>5. cuts' # <<>> /\ Len(cuts') = Len(cuts) + 1 /\ cuts'[Len(cuts')] = Have /\ Len(cuts) \in Nat
    BY <2>3, <2>4, <1>3
  <2>6. cuts = <<>> \/ (version = "chap.5" /\ 2 * Have <= HeaderLen)
    <3>1. version' = version BY DEF Writev
    <3>2. Len(cuts') <= 1 => cuts = <<>> BY <2>4, <2>5
    <3> QED BY <3>1, <3>2, <2>5 DEF FewCuts
  <2>7. iv0' = [base |-> Have, len |-> HeaderLen - Have] /\ iv1' = iv1
    <3>1. CASE cuts = <<>>
      <4>1. bytes_have_send = 0 BY <3>1, <2>1, <1>2 DEF Follows
      <4>2. iv0.len = HeaderLen /\ Have = Taken BY <4>1, <2>2, <1>3
      <4>3. ~(Have >= iv0.len) BY <4>2, <1>3, <1>8
      <4> QED BY <4>2, <4>3, <1>4 DEF Advance
    <3>2. CASE version = "chap.5" /\ 2 * Have <= HeaderLen
      <4>1. iv0.len = HeaderLen - bytes_have_send BY <2>2
      <4>2. ~(Have >= iv0.len) BY <4>1, <3>2, <1>3
      <4>3. iv0.len - Taken = HeaderLen - Have BY <4>1, <1>3
      <4> QED BY <4>2, <4>3, <3>2, <1>4 DEF Advance
    <3> QED BY <3>1, <3>2, <2>6
  <2> QED BY <2>2, <2>5, <2>7, <1>3, <1>4, <1>5, <1>6, <1>8 DEF Follows
<1> QED BY <1>3, <1>7, <1>8

LEMMA WritevStep ==
    ASSUME SendInv, Writev
    PROVE  SendInv'
<1>1. /\ Taken \in Nat /\ Taken <= OfferedLen /\ Taken <= bytes_to_send /\ Taken <= room
      /\ Have \in Nat /\ bytes_to_send - Taken \in Nat /\ room - Taken \in 0..RoomMax
      /\ bytes_have_send \in Nat /\ bytes_have_send <= Have
  <2>1. Len(Offered) \in Nat /\ Len(Offered) = OfferedLen /\ room \in Nat /\ room \in 0..RoomMax
        /\ RoomMax \in Nat /\ bytes_have_send \in Nat /\ bytes_to_send \in Nat
    BY OfferedIs, Parameters DEF SendInv, TypeOK
  <2>2. Taken <= room BY <2>1 DEF Taken
  <2> QED BY <2>1, <2>2, TakenIs DEF Have
<1>2. sent' \in Seq(Nat \cup {Garbage})
  <2> DEFINE Byte == Nat \cup {Garbage}
  <2>1. Offered \in Seq(Byte) /\ sent \in Seq(Byte) /\ Taken <= Len(Offered)
    BY <1>1, OfferedIs DEF SendInv, TypeOK
  <2>2. \A i \in 1..Taken : Offered[i] \in Byte BY <2>1, <1>1, ElementOfSeq
  <2>3. sent' = sent \o SubSeq(Offered, 1, Taken) BY DEF Writev, Taken
  <2> HIDE DEF Byte
  <2>4. SubSeq(Offered, 1, Taken) \in Seq(Byte) BY <2>2, <1>1, SubSeqProperties
  <2>5. sent' \in Seq(Byte) BY <2>1, <2>3, <2>4, ConcatProperties
  <2> QED BY <2>5 DEF Byte
<1>3. /\ cuts' \in Seq(Nat)
      /\ cuts' # <<>> => cuts'[Len(cuts')] <= Have
  <2>1. cuts \in Seq(Nat) /\ (cuts # <<>> => cuts[Len(cuts)] <= bytes_have_send)
    BY TakenIs DEF SendInv, TypeOK, Progress
  <2>2. CASE cuts' = cuts
    <3>1. cuts # <<>> => cuts[Len(cuts)] \in Nat BY <2>1
    <3> QED BY <3>1, <2>1, <2>2, <1>1
  <2>3. CASE cuts' = Append(cuts, Have) BY <2>1, <2>3, <1>1
  <2> QED BY <2>2, <2>3 DEF Writev, Have, Taken
<1>4. version' = version /\ cut' = (cut /\ bytes_to_send > Taken) /\ room' = room - Taken
  BY DEF Writev, Taken
<1>5. RightBytes' BY RightStep DEF RightBytes
<1>6. ASSUME bytes_to_send > Taken, Advanced(Have, Taken), UNCHANGED <<pc, file, m_linger>>
      PROVE  SendInv'
  <2>1. /\ bytes_have_send' = Have /\ bytes_to_send' = bytes_to_send - Taken
        /\ m_iv_count' = m_iv_count /\ pc' = pc /\ m_linger' = m_linger
        /\ m_file_address' = m_file_address /\ st_size' = st_size
    BY <1>6 DEF Advanced, file
  <2>2. /\ iv0' \in [base : Nat, len : Nat] /\ iv1' \in [base : Int, len : Nat]
        /\ OfferedLen' <= bytes_to_send'
    BY <1>6, <2>1, AdvanceTypes DEF Advanced, OfferedLen
  <2>3. Sending /\ pc' = "writing" /\ m_iv_count \in {1, 2} BY <2>1, TakenIs DEF Writev, SendInv, Progress
  <2>4. cut' \in BOOLEAN BY <1>4, Zenon
  <2>5. TypeOK' BY <1>1, <1>2, <1>3, <1>4, <2>1, <2>2, <2>4 DEF SendInv, TypeOK
  <2>6. Mapping' /\ Fresh' BY <1>4, <1>6, <2>1, <2>3 DEF SendInv, Mapping, Fresh, Sending
  <2>7. bytes_to_send' >= 1 BY <1>1, <1>6, <2>1 DEF SendInv, TypeOK
  <2>8. FewCuts' => Follows' BY <1>6, <2>1, AdvanceFollows
  <2>9. Progress' BY <1>3, <2>1, <2>2, <2>3, <2>7, <2>8 DEF Progress
  <2> QED BY <1>5, <2>5, <2>6, <2>9 DEF SendInv
<1>7. ASSUME pc' \in {"reading", "closed"}, m_file_address' = NoFile,
             iv0' \in [base : Nat, len : Nat], iv1' \in [base : Int, len : Nat],
             m_iv_count' \in {0, 1, 2}, st_size' \in Nat, m_linger' \in BOOLEAN,
             bytes_to_send' \in Nat, bytes_have_send' \in Nat, Fresh'
      PROVE  SendInv'
  <2>1. cut' \in BOOLEAN BY <1>4, Zenon
  <2>2. TypeOK' BY <1>1, <1>2, <1>3, <1>4, <1>7, <2>1 DEF SendInv, TypeOK
  <2>3. Mapping' /\ Progress' BY <1>7 DEF Mapping, Progress, Sending
  <2> QED BY <1>5, <1>7, <2>2, <2>3 DEF SendInv
<1>8. ASSUME Kept(Have, Taken) PROVE SendInv'
  <2>1. pc' = "reading" /\ bytes_to_send' = 0 /\ bytes_have_send' = 0 BY <1>8 DEF Kept
  <2>2. m_linger' \in BOOLEAN BY <1>8, Zenon DEF Kept
  <2>3. /\ m_file_address' = NoFile /\ m_iv_count' \in {0, 1, 2} /\ st_size' \in Nat
        /\ iv0' \in [base : Nat, len : Nat] /\ iv1' \in [base : Int, len : Nat]
    <3>1. CASE version = "chap.5" BY <3>1, <1>8 DEF Kept, ClearRest, NoPart
    <3>2. CASE version # "chap.5"
      BY <3>2, <1>8, AdvanceTypes DEF Kept, Unmap, SendInv, TypeOK
    <3> QED BY <3>1, <3>2
  <2>4. Fresh' BY <2>1 DEF Fresh
  <2> QED BY <2>1, <2>2, <2>3, <2>4, <1>7
<1>9. ASSUME Advanced(Have, Taken), Unmap, pc' = "closed", UNCHANGED <<st_size, m_linger>>
      PROVE  SendInv'
  <2>1. /\ bytes_have_send' = Have /\ bytes_to_send' = bytes_to_send - Taken
        /\ m_iv_count' = m_iv_count /\ m_linger' = m_linger /\ st_size' = st_size
        /\ m_file_address' = NoFile
    BY <1>9 DEF Advanced, Unmap
  <2>2. iv0' \in [base : Nat, len : Nat] /\ iv1' \in [base : Int, len : Nat]
    BY <1>9, AdvanceTypes DEF Advanced
  <2>3. m_iv_count \in {0, 1, 2} /\ m_linger \in BOOLEAN /\ st_size \in Nat BY DEF SendInv, TypeOK
  <2>4. Fresh' BY <1>9 DEF Fresh
  <2> QED BY <1>1, <1>7, <1>9, <2>1, <2>2, <2>3, <2>4
<1> QED BY <1>6, <1>8, <1>9 DEF Writev, Have, Taken

-----------------------------------------------------------------------------
LEMMA SendStep == SendInv /\ [Next]_vars => SendInv'
<1> SUFFICES ASSUME SendInv, [Next]_vars PROVE SendInv' OBVIOUS
<1>1. TypeOK /\ Fresh /\ Mapping BY DEF SendInv
<1>2. ASSUME Accept PROVE SendInv'
  <2>1. /\ pc' = "reading" /\ room' = RoomMax /\ bytes_to_send' = 0 /\ bytes_have_send' = 0
        /\ m_linger' = FALSE /\ version' = version /\ sent' = sent /\ cut' = cut /\ cuts' = cuts
    BY <1>2 DEF Accept, history
  <2>2. /\ iv0' \in [base : Nat, len : Nat] /\ iv1' \in [base : Int, len : Nat]
        /\ m_iv_count' \in {0, 1, 2} /\ st_size' \in Nat
        /\ m_file_address' \in {m_file_address, NoFile}
    BY <1>1, <1>2 DEF Accept, ClearRest, NoPart, file, TypeOK
  <2>3. m_linger' \in BOOLEAN BY <2>1
  <2>4. TypeOK' BY <1>1, <2>1, <2>2, <2>3, Parameters DEF TypeOK
  <2>5. RightBytes' BY <2>1 DEF SendInv, RightBytes, FewCuts
  <2>6. Mapping' /\ Progress' BY <1>1, <1>2, <2>1, <2>2 DEF Accept, Mapping, Progress, Sending
  <2> QED BY <2>1, <2>4, <2>5, <2>6 DEF SendInv, Fresh
<1>3. ASSUME NEW f \in Files, AnswerFile(f) PROVE SendInv'
  <2>1. /\ pc = "reading" /\ Size[f] \in Nat /\ Answer(HeaderLen + Size[f], 2)
        /\ m_file_address' = f /\ st_size' = Size[f] /\ cut' = FALSE /\ f # NoFile
        /\ iv1' = [base |-> 0, len |-> Size[f]] /\ iv1' \in [base : Int, len : Nat]
    BY <1>3, Parameters DEF AnswerFile
  <2> QED BY <2>1, AnswerStep
<1>4. ASSUME (\E f \in Files : AnswerForbidden(f)) \/ AnswerBad PROVE SendInv'
  <2>1. /\ pc = "reading" /\ Answer(HeaderLen, 1) /\ iv1' = iv1 /\ st_size' \in Nat
        /\ m_file_address' = m_file_address /\ cut' = cut
    BY <1>1, <1>4, Parameters DEF AnswerForbidden, AnswerBad, file, TypeOK
  <2>2. m_file_address' # NoFile => cut' BY <1>1, <2>1 DEF Mapping, Sending
  <2>3. cut' \in BOOLEAN BY <1>1, <2>1 DEF TypeOK
  <2>4. HeaderLen = HeaderLen + (IF 1 = 2 THEN 0 ELSE 0) BY Parameters
  <2> HIDE DEF Answer
  <2>5. Answer(HeaderLen + (IF 1 = 2 THEN 0 ELSE 0), 1) BY <2>1, <2>4
  <2>6. iv1' \in [base : Int, len : Nat] /\ m_file_address' \in Files \cup {NoFile}
    BY <1>1, <2>1 DEF TypeOK
  <2> QED BY <2>1, <2>2, <2>3, <2>5, <2>6, AnswerStep
<1>5. ASSUME NoAnswer \/ Resume \/ Again \/ Drain \/ UNCHANGED vars PROVE SendInv'
  <2>1. UNCHANGED <<version, iov, file, m_linger, sent, cuts, cut>> /\ room' \in 0..RoomMax
    BY <1>1, <1>5, Parameters
    DEF NoAnswer, Resume, Again, Drain, history, iov, file, vars, TypeOK
  <2>2. pc' \in {"closed", "reading", "blocked", "writing"} /\ (Sending' <=> Sending)
        /\ (pc' = "reading" => pc = "reading")
    BY <1>1, <1>5 DEF NoAnswer, Resume, Again, Drain, vars, TypeOK, Sending
  <2>3. cut' \in BOOLEAN /\ m_linger' \in BOOLEAN BY <1>1, <2>1 DEF TypeOK
  <2>4. TypeOK' BY <1>1, <2>1, <2>2, <2>3 DEF TypeOK, iov, file
  <2>5. Fresh' /\ Mapping' BY <1>1, <2>1, <2>2 DEF Fresh, Mapping, iov, file
  <2> QED BY <2>1, <2>2, <2>4, <2>5, LeftAlone DEF file
<1>6. ASSUME WritevFails \/ HangUp PROVE SendInv'
  <2>1. /\ pc' = "closed" /\ m_file_address' \in {m_file_address, NoFile}
        /\ UNCHANGED <<version, iov, st_size, m_linger, room, sent, cuts>>
        /\ m_file_address' # NoFile => cut'
    BY <1>6 DEF WritevFails, HangUp, Unmap, file
  <2>2. cut' \in BOOLEAN
    <3>1. cut' = FALSE \/ cut' = (m_file_address # NoFile) BY <1>6 DEF WritevFails, HangUp
    <3> QED BY <3>1
  <2>3. m_linger' \in BOOLEAN BY <1>1, <2>1 DEF TypeOK
  <2>4. TypeOK' BY <1>1, <2>1, <2>2, <2>3 DEF TypeOK, iov
  <2>5. ~Sending' /\ Fresh' /\ Mapping' BY <2>1 DEF Sending, Fresh, Mapping
  <2> QED BY <2>1, <2>4, <2>5, LeftAlone
<1> QED BY <1>2, <1>3, <1>4, <1>5, <1>6, WritevStep DEF Next

LEMMA SendAlways == Spec => []SendInv
BY InitSend, SendStep, PTL DEF Spec

\* The bytes sent, the counters, m_iv and the mapping describe one answer.
THEOREM AnswerIsCounted == Spec => []AnswerInv
<1>1. SendInv => AnswerInv
  <2> SUFFICES ASSUME SendInv PROVE AnswerInv OBVIOUS
  <2>1. TypeOK BY DEF SendInv
  <2>2. CountsAnswer
    <3> SUFFICES ASSUME Sending, FewCuts
                 PROVE  /\ Len(sent) = bytes_have_send
                        /\ bytes_have_send + bytes_to_send = Total
                        /\ Len(Offered) = bytes_to_send
      BY DEF CountsAnswer
    <3>1. Follows /\ m_iv_count \in {1, 2} /\ bytes_to_send >= 1 BY DEF SendInv, Progress
    <3> QED BY <2>1, <3>1, OffersTheRest, OfferedIs DEF Follows
  <2>3. MappedWhileSending
    <3> SUFFICES ASSUME Sending, m_iv_count = 2, FewCuts
                 PROVE  /\ m_file_address # NoFile
                        /\ iv1.base >= 0 /\ iv1.base + iv1.len <= Size[m_file_address]
      BY DEF MappedWhileSending
    <3>1. Follows /\ m_file_address # NoFile /\ st_size = Size[m_file_address]
      BY DEF SendInv, Progress, Mapping
    <3>2. bytes_have_send \in Nat /\ bytes_to_send \in Nat /\ HeaderLen \in Nat /\ st_size \in Nat
      BY <2>1, Parameters DEF TypeOK
    <3>3. CASE bytes_have_send < HeaderLen BY <3>1, <3>2, <3>3 DEF Follows
    <3>4. CASE bytes_have_send >= HeaderLen
      <4>1. bytes_have_send + bytes_to_send = HeaderLen + st_size BY <3>1 DEF Follows, Total
      <4>2. iv1.base = bytes_have_send - HeaderLen /\ iv1.len = bytes_to_send
        BY <3>1, <3>4 DEF Follows
      <4> QED BY <4>1, <4>2, <3>1, <3>2, <3>4
    <3> QED BY <3>2, <3>3, <3>4, <3>1
  <2> QED BY <2>1, <2>2, <2>3 DEF AnswerInv
<1> QED BY <1>1, SendAlways, PTL

\* The client gets the bytes of the answer in order and nothing else, however the socket
\* buffer cuts the writev() calls, unless the header is cut more often than m_iv can follow.
THEOREM BytesInOrder == Spec => []RightBytes
<1>1. SendInv => RightBytes BY DEF SendInv
<1> QED BY <1>1, SendAlways, PTL

\* A mapping ends by a munmap() of its own length, unless its connection ended first.
THEOREM MappingsAreUndone == Spec => MappingsEnd
<1> DEFINE Undone == m_file_address # NoFile /\ ~cut =>
                         \/ m_file_address' = m_file_address
                         \/ m_file_address' = NoFile /\ st_size = Size[m_file_address]
<1>1. SendInv /\ [Next]_vars => [Undone]_vars
  <2> SUFFICES ASSUME SendInv, Next, m_file_address # NoFile, ~cut
               PROVE  m_file_address' \in {m_file_address, NoFile} /\ st_size = Size[m_file_address]
    OBVIOUS
  <2>1. Sending /\ m_iv_count = 2 /\ st_size = Size[m_file_address] BY DEF SendInv, Mapping
  <2>2. pc \in {"blocked", "writing"} BY <2>1 DEF Sending
  <2>3. m_file_address' \in {m_file_address, NoFile}
    BY <2>2 DEF Next, Accept, AnswerFile, AnswerForbidden, AnswerBad, NoAnswer, Resume, Writev,
                Again, WritevFails, HangUp, Drain, Kept, Unmap, ClearRest, file
  <2> QED BY <2>1, <2>3
<1> QED BY <1>1, SendAlways, PTL DEF Spec, MappingsEnd
=============================================================================
