------------------------- MODULE ChatTerminalProofs -------------------------
(***************************************************************************)
(* Proofs about ChatTerminal, for any texts of the chunks, any capacity of *)
(* the channel and any number of chunks and failures: what the select may  *)
(* lose of an answer, by IInv.  What handleChunk makes of a chunk does not *)
(* matter for that, and its folds are never unfolded.                      *)
(***************************************************************************)
EXTENDS ChatTerminal, SequenceTheorems, TLAPS

(***************************************************************************)
(* The channel of chunks is a window on what was sent                      *)
(***************************************************************************)

\* Chunks w wait, the first of them being the one after the first n of s.
Window(w, s, n) ==
    /\ w \in Seq(Deltas) /\ s \in Seq(Deltas) /\ n \in Nat
    /\ n + Len(w) <= Len(s)
    /\ \A i \in 1 .. Len(w) : w[i] = s[n + i]

LEMMA WindowIsSubSeq ==
    ASSUME NEW w, NEW s, NEW n, Window(w, s, n)
    PROVE  SubSeq(s, n + 1, n + Len(w)) = w
  <1> DEFINE sub == SubSeq(s, n + 1, n + Len(w))
  <1>1. Len(w) \in Nat /\ Len(s) \in Nat /\ n \in Nat /\ n + Len(w) <= Len(s)
    BY DEF Window
  <1>2. \A i \in n + 1 .. n + Len(w) : s[i] \in Deltas
    BY <1>1 DEF Window
  <1>3. /\ sub \in Seq(Deltas)
        /\ Len(sub) = IF n + 1 <= n + Len(w) THEN n + Len(w) - (n + 1) + 1 ELSE 0
        /\ \A i \in 1 .. n + Len(w) - (n + 1) + 1 : sub[i] = s[n + 1 + i - 1]
    BY <1>1, <1>2, SubSeqProperties
  <1>4. Len(sub) = Len(w)
    BY <1>1, <1>3
  <1>5. ASSUME NEW i \in 1 .. Len(sub) PROVE sub[i] = w[i]
    <2>1. n + Len(w) - (n + 1) + 1 = Len(w) /\ n + 1 + i - 1 = n + i
      BY <1>1
    <2> QED
      BY <1>3, <1>4, <2>1 DEF Window
  <1>6. w \in Seq(Deltas)
    BY DEF Window
  <1> QED
    BY <1>3, <1>4, <1>5, <1>6, SeqEqual

\* Nothing else fits into the window once the whole of s was sent to it.
LEMMA WindowAppend ==
    ASSUME NEW w, NEW s, NEW n, Window(w, s, n), Len(s) = n + Len(w), NEW d \in Deltas
    PROVE  /\ Window(Append(w, d), Append(s, d), n)
           /\ Len(Append(s, d)) = n + Len(Append(w, d))
  <1>1. w \in Seq(Deltas) /\ s \in Seq(Deltas) /\ n \in Nat /\ Len(w) \in Nat /\ Len(s) \in Nat
    BY DEF Window
  <1>2. /\ Append(w, d) \in Seq(Deltas) /\ Len(Append(w, d)) = Len(w) + 1
        /\ \A i \in 1 .. Len(w) : Append(w, d)[i] = w[i]
        /\ Append(w, d)[Len(w) + 1] = d
    BY <1>1, AppendProperties
  <1>3. /\ Append(s, d) \in Seq(Deltas) /\ Len(Append(s, d)) = Len(s) + 1
        /\ \A i \in 1 .. Len(s) : Append(s, d)[i] = s[i]
        /\ Append(s, d)[Len(s) + 1] = d
    BY <1>1, AppendProperties
  <1>4. ASSUME NEW i \in 1 .. Len(w) + 1 PROVE Append(w, d)[i] = Append(s, d)[n + i]
    <2>1. CASE i \in 1 .. Len(w)
      <3>1. n + i \in 1 .. Len(s)
        BY <1>1, <2>1
      <3> QED
        BY <1>2, <1>3, <2>1, <3>1 DEF Window
    <2>2. CASE i = Len(w) + 1
      <3>1. n + i = Len(s) + 1
        BY <1>1, <2>2
      <3> QED
        BY <1>2, <1>3, <2>2, <3>1
    <2> QED
      BY <1>1, <2>1, <2>2
  <1>5. n + Len(Append(w, d)) = Len(Append(s, d))
    BY <1>1, <1>2, <1>3
  <1>6. n + Len(Append(w, d)) <= Len(Append(s, d))
    BY <1>1, <1>3, <1>5
  <1>7. \A i \in 1 .. Len(Append(w, d)) : Append(w, d)[i] = Append(s, d)[n + i]
    BY <1>2, <1>4
  <1> QED
    BY <1>1, <1>2, <1>3, <1>5, <1>6, <1>7 DEF Window

\* A chunk that does not get into the channel leaves the window as it was.
LEMMA WindowPassed ==
    ASSUME NEW w, NEW s, NEW n, Window(w, s, n), NEW d \in Deltas
    PROVE  Window(w, Append(s, d), n)
  <1>1. w \in Seq(Deltas) /\ s \in Seq(Deltas) /\ n \in Nat /\ Len(w) \in Nat /\ Len(s) \in Nat
    BY DEF Window
  <1>2. /\ Append(s, d) \in Seq(Deltas) /\ Len(Append(s, d)) = Len(s) + 1
        /\ \A i \in 1 .. Len(s) : Append(s, d)[i] = s[i]
    BY <1>1, AppendProperties
  <1>3. n + Len(w) <= Len(s)
    BY DEF Window
  <1>4. \A i \in 1 .. Len(w) : n + i \in 1 .. Len(s)
    BY <1>1, <1>3
  <1>5. n + Len(w) <= Len(s) + 1
    BY <1>1, <1>3
  <1> QED
    BY <1>1, <1>2, <1>4, <1>5 DEF Window

LEMMA WindowTail ==
    ASSUME NEW w, NEW s, NEW n, Window(w, s, n), w # <<>>
    PROVE  /\ Window(Tail(w), s, n + 1)
           /\ n + 1 + Len(Tail(w)) = n + Len(w)
  <1>1. w \in Seq(Deltas) /\ s \in Seq(Deltas) /\ n \in Nat /\ Len(w) \in Nat /\ Len(s) \in Nat
    BY DEF Window
  <1>2. /\ Tail(w) \in Seq(Deltas) /\ Len(Tail(w)) = Len(w) - 1
        /\ \A i \in 1 .. Len(Tail(w)) : Tail(w)[i] = w[i + 1]
    BY <1>1, HeadTailProperties
  <1>3. n + Len(w) <= Len(s) /\ \A i \in 1 .. Len(w) : w[i] = s[n + i]
    BY DEF Window
  <1>4. ASSUME NEW i \in 1 .. Len(Tail(w)) PROVE Tail(w)[i] = s[n + 1 + i]
    <2>1. i + 1 \in 1 .. Len(w) /\ n + (i + 1) = n + 1 + i
      BY <1>1, <1>2
    <2> QED
      BY <1>2, <1>3, <2>1
  <1>5. n + 1 + Len(Tail(w)) = n + Len(w)
    BY <1>1, <1>2
  <1> QED
    BY <1>1, <1>2, <1>3, <1>4, <1>5 DEF Window

LEMMA InvWindow == IInv => Window(chunkCh, sent, shown)
  BY DEF IInv, ChannelTypes, Window

LEMMA Lengths ==
    ASSUME IInv
    PROVE  Len(sent) \in Nat /\ Len(chunkCh) \in Nat /\ shown \in Nat
  <1>1. sent \in Seq(Deltas) /\ chunkCh \in Seq(Deltas) /\ shown \in Nat
    BY DEF IInv, ChannelTypes
  <1> QED
    BY <1>1

(***************************************************************************)
(* The steps                                                               *)
(***************************************************************************)

\* An answer of which nothing was sent yet, or none.
LEMMA Afresh ==
    ASSUME state \in {"idle", "streaming"}, err \in BOOLEAN, reader = "off",
           chunkCh = <<>>, errCh = <<>>, sent = <<>>, shown = 0
    PROVE  IInv
  <1>1. sent \in Seq(Deltas) /\ chunkCh \in Seq(Deltas) /\ Len(sent) = 0 /\ Len(chunkCh) = 0
    OBVIOUS
  <1>2. ChannelTypes
    BY <1>1 DEF ChannelTypes
  <1> QED
    BY <1>1, <1>2 DEF IInv, SilentOnlyAtTheEnd

LEMMA InitInv == Init => IInv
  BY Afresh DEF Init

LEMMA AskInv ==
    ASSUME IInv, Ask
    PROVE  IInv'
  <1>1. /\ state' \in {"idle", "streaming"} /\ err' \in BOOLEAN /\ reader' = "off"
        /\ chunkCh' = <<>> /\ errCh' = <<>> /\ sent' = <<>> /\ shown' = 0
    BY DEF Ask, startStreaming, IInv, ChannelTypes
  <1>2. /\ sent' \in Seq(Deltas) /\ chunkCh' \in Seq(Deltas)
        /\ Len(sent') = 0 /\ Len(chunkCh') = 0
    BY <1>1
  <1>3. ChannelTypes'
    BY <1>1, <1>2 DEF ChannelTypes
  <1>4. /\ \A i \in 1 .. Len(chunkCh') : chunkCh'[i] = sent'[shown' + i]
        /\ Len(sent') = shown' + Len(chunkCh') /\ ~(Len(sent') > shown' + Len(chunkCh'))
        /\ ~(shown' < Len(sent'))
    BY <1>1, <1>2
  <1> QED
    BY <1>1, <1>3, <1>4 DEF IInv, SilentOnlyAtTheEnd

\* A step that leaves what was sent and what is handled as they are.
LEMMA InterfaceInv ==
    ASSUME IInv, UNCHANGED <<chunkCh, sent, shown>>,
           initStream \/ RequestFails \/ ScanEnd \/ Close
    PROVE  IInv'
  <1>1. ChannelTypes'
    BY DEF initStream, RequestFails, streamErr, ScanEnd, Close, model, channels, IInv, ChannelTypes
  <1>2. Len(sent) \in Nat /\ Len(chunkCh) \in Nat /\ shown \in Nat
    BY Lengths
  <1>3. CASE initStream
    BY <1>1, <1>3 DEF initStream, model, IInv, SilentOnlyAtTheEnd
  <1>4. CASE RequestFails
    BY <1>1, <1>4 DEF RequestFails, streamErr, channels, IInv, SilentOnlyAtTheEnd
  <1>5. CASE ScanEnd
    BY <1>1, <1>5 DEF ScanEnd, model, IInv, SilentOnlyAtTheEnd
  <1>6. CASE Close
    BY <1>1, <1>6 DEF Close, model, IInv, SilentOnlyAtTheEnd
  <1> QED
    BY <1>3, <1>4, <1>5, <1>6

\* A chunk is put into the channel.
LEMMA ScanInv ==
    ASSUME IInv, Scan
    PROVE  IInv'
  <1>1. PICK d \in Deltas : chunkCh' = Append(chunkCh, d) /\ sent' = Append(sent, d)
    BY DEF Scan
  <1>2. /\ Len(sent) = shown + Len(chunkCh) /\ state = "streaming" /\ reader = "reading"
        /\ UNCHANGED <<state, err, reader, errCh, shown>>
    BY DEF Scan, model, IInv
  <1>3. Window(chunkCh', sent', shown') /\ Len(sent') = shown' + Len(chunkCh')
    BY <1>1, <1>2, InvWindow, WindowAppend
  <1>4. ChannelTypes'
    BY <1>2, <1>3 DEF IInv, ChannelTypes, Window
  <1>5. errCh' = <<>>
    BY <1>2 DEF IInv
  <1>6. \A i \in 1 .. Len(chunkCh') : chunkCh'[i] = sent'[shown' + i]
    BY <1>3 DEF Window
  <1>7. ~(Len(sent') > shown' + Len(chunkCh'))
    <2>1. sent' \in Seq(Deltas)
      BY <1>4 DEF ChannelTypes
    <2>2. Len(sent') \in Nat
      BY <2>1
    <2> QED
      BY <1>3, <2>2
  <1> QED
    BY <1>2, <1>3, <1>4, <1>5, <1>6, <1>7 DEF IInv, SilentOnlyAtTheEnd

\* The stream breaks: what may be missing, an error says so.
LEMMA parseFailsInv ==
    ASSUME IInv, parseFails
    PROVE  IInv'
  <1>1. /\ reader = "reading" /\ state = "streaming" /\ reader' = "closing" /\ errCh' # <<>>
        /\ UNCHANGED <<state, err, chunkCh, shown>>
    BY DEF parseFails, model, IInv
  <1>2. UNCHANGED sent \/ \E d \in Deltas : sent' = Append(sent, d)
    BY DEF parseFails
  <1>3. Window(chunkCh', sent', shown')
    BY <1>1, <1>2, InvWindow, WindowPassed
  <1>4. ChannelTypes'
    BY <1>1, <1>3 DEF IInv, ChannelTypes, Window
  <1>5. \A i \in 1 .. Len(chunkCh') : chunkCh'[i] = sent'[shown' + i]
    BY <1>3 DEF Window
  <1> QED
    BY <1>1, <1>4, <1>5 DEF IInv, SilentOnlyAtTheEnd

\* The select: a chunk, an error, or the end.
LEMMA waitForChunkInv ==
    ASSUME IInv, waitForChunk
    PROVE  IInv'
  <1>1. state = "streaming" /\ reader # "off" /\ UNCHANGED <<reader, sent>>
    BY DEF waitForChunk
  <1>2. Len(sent) \in Nat /\ Len(chunkCh) \in Nat /\ shown \in Nat
    BY Lengths
  <1>3. CASE /\ chunkCh # <<>> /\ chunkCh' = Tail(chunkCh) /\ shown' = shown + 1
             /\ UNCHANGED <<state, err, errCh>>
    <2>1. Window(chunkCh', sent', shown') /\ shown' + Len(chunkCh') = shown + Len(chunkCh)
      BY <1>1, <1>3, InvWindow, WindowTail
    <2>2. ChannelTypes'
      BY <1>1, <1>3, <2>1 DEF IInv, ChannelTypes, Window
    <2>3. \A i \in 1 .. Len(chunkCh') : chunkCh'[i] = sent'[shown' + i]
      BY <2>1 DEF Window
    <2>4. /\ Len(sent) = shown + Len(chunkCh) => Len(sent') = shown' + Len(chunkCh')
          /\ Len(sent') > shown' + Len(chunkCh') => Len(sent) > shown + Len(chunkCh)
      BY <1>1, <2>1
    <2> QED
      BY <1>1, <1>3, <2>2, <2>3, <2>4 DEF IInv, SilentOnlyAtTheEnd
  <1>4. CASE errCh # <<>> /\ streamErr /\ UNCHANGED <<chunkCh, shown>>
    <2>1. ChannelTypes'
      BY <1>1, <1>4 DEF streamErr, IInv, ChannelTypes
    <2> QED
      BY <1>1, <1>4, <2>1 DEF streamErr, IInv, SilentOnlyAtTheEnd
  <1>5. CASE Done /\ finishStream /\ UNCHANGED <<chunkCh, errCh, shown>>
    <2>1. ChannelTypes'
      BY <1>1, <1>5 DEF finishStream, IInv, ChannelTypes
    <2>2. reader \in {"closed chunks", "returned"}
      BY <1>5 DEF Done
    <2>3. shown < Len(sent) /\ reader # "returned" => errCh # <<>>
      <3>1. reader # "returned" => chunkCh = <<>>
        BY <1>5 DEF Done
      <3>2. chunkCh = <<>> => Len(chunkCh) = 0
        OBVIOUS
      <3>3. Len(sent) > shown + Len(chunkCh) => errCh # <<>>
        BY <1>1 DEF IInv
      <3> QED
        BY <1>2, <3>1, <3>2, <3>3
    <2>4. SilentOnlyAtTheEnd'
      BY <1>1, <1>5, <2>2, <2>3 DEF SilentOnlyAtTheEnd
    <2> QED
      BY <1>1, <1>5, <2>1, <2>2, <2>4 DEF finishStream, IInv
  <1> QED
    BY <1>3, <1>4, <1>5 DEF waitForChunk

LEMMA NextInv ==
    ASSUME IInv, [Next]_vars
    PROVE  IInv'
  <1>1. CASE initStream \/ RequestFails \/ ScanEnd \/ Close
    BY <1>1, InterfaceInv DEF initStream, RequestFails, ScanEnd, Close, channels
  <1>2. CASE UNCHANGED vars
    BY <1>2 DEF vars, model, channels, IInv, ChannelTypes, SilentOnlyAtTheEnd
  <1> QED
    BY <1>1, <1>2, AskInv, ScanInv, parseFailsInv, waitForChunkInv
       DEF Next, InterfaceStep, ReaderStep

(***************************************************************************)
(* Theorems                                                                *)
(***************************************************************************)

\* Chunks that came are handled, or wait in the channel in their order, or
\* there is an error that says that some are missing.
THEOREM TerminalInvariant == Spec => []IInv
  <1>1. Init => IInv
    BY InitInv
  <1>2. IInv /\ [Next]_vars => IInv'
    BY NextInv
  <1> QED
    BY <1>1, <1>2, PTL DEF Spec

\* Whatever the select takes when both channels are ready, chunks are handled
\* in their order, and an answer that goes on silently never has a gap.
THEOREM ChunksLostOnlyAtTheEnd == Spec => []LostOnlyAtTheEnd
  <1>1. IInv => LostOnlyAtTheEnd
    BY InvWindow, WindowIsSubSeq DEF IInv, LostOnlyAtTheEnd
  <1> QED
    BY <1>1, TerminalInvariant, PTL

=============================================================================
