--------------------------- MODULE RxVringProofs ---------------------------
(***************************************************************************)
(* Proofs about RxVring for every ring size and every number and size of   *)
(* frames, whichever threads put them: the variables keep their types; the *)
(* first pass over the descriptor table delivers every frame in order while *)
(* nothing has been echoed, and each of the two functions uses only buffers *)
(* the guest has posted until the other one puts a frame.                  *)
(***************************************************************************)
EXTENDS RxVring, TLAPS

\* The program points of a put that has moved the available head and has not
\* published its used entry, and those after its copy.
Busy == {"uhead", "copy", "desc", "aslot", "aring", "aload", "aidx", "uring", "uidx"}
Copied == Busy \ {"uhead", "copy"}

\* The slot after h in the first pass.
Wrap(h) == IF h = Num THEN 0 ELSE h

\* What holds in every pass, while nothing has been echoed.
Counts ==
    /\ pc["main"] = "idle"
    /\ Len(sent) = used_idx /\ Len(got) = guest_used /\ guest_used <= used_idx
    /\ pc["transport"] \in {"head"} \cup Busy => a_idx["transport"] \in Descs
    /\ pc["transport"] \in Busy \ {"uhead"} => u_idx["transport"] \in Descs

\* The first pass uses descriptor 0, 1, ... for frame 0, 1, ... : heads
\* frames have been begun, used_idx of them published, guest_used taken.
HeadsAgree(h, p, a, u) ==
    /\ h = used_idx + (IF p \in Busy THEN 1 ELSE 0)
    /\ last_avail_idx = Wrap(h)
    /\ last_used_idx = IF p = "uhead" THEN h - 1 ELSE Wrap(h)
    /\ p \in {"check", "head"} => a = Wrap(h) /\ u = Wrap(h)
    /\ p \in Busy => a = h - 1 /\ u = h - 1

\* The descriptors ahead are as the guest posted them.
Ahead(h, p) ==
    /\ \A d \in Descs : d >= h => desc[d].next = Wrap(d + 1) /\ d \in open
    /\ p = "uhead" => desc[h - 1].next = Wrap(h)
    /\ p \in {"uhead", "copy"} => h - 1 \in open

\* A published frame the guest has not taken is intact in its own buffer.
Visible ==
    /\ \A x \in Nat : guest_used <= x /\ x < used_idx =>
          /\ used_ring[x] = [id |-> x, len |-> sent[x + 1].len]
          /\ buf[x] = sent[x + 1].id
    /\ \A d \in spare : d < guest_used
    /\ \A k \in 1..guest_used : got[k] = sent[k]

\* So is the frame being put, from the points where its parts are written.
InHand(h, p, f) ==
    /\ p \in Copied => buf[h - 1] = f.id
    /\ p = "uidx" => used_ring[h - 1] = [id |-> h - 1, len |-> HdrLen + f.size]

FirstPass(h, p, a, u, f) ==
    HeadsAgree(h, p, a, u) /\ Ahead(h, p) /\ Visible /\ InHand(h, p, f)

Pass == FirstPass(heads, pc["transport"], a_idx["transport"], u_idx["transport"],
                  frame["transport"])

PassInv == Counts /\ (heads <= Num => Pass)

RxInv == TypeOK /\ PassInv

-----------------------------------------------------------------------------
(* Types, whichever threads put frames: an index that is used is in the table. *)

\* A thread that is past its checks holds descriptors of the table, and
\* put_vring has no used head.
Located ==
    /\ \A t \in Threads : pc[t] \in {"head"} \cup Busy => a_idx[t] \in Descs
    /\ pc["transport"] \in Busy \ {"uhead"} => u_idx["transport"] \in Descs
    /\ pc["main"] \notin {"uhead", "uring", "uidx"}

BaseInv == TypeOK /\ Located

(* What moving a thread to another point does to pc.                        *)
LEMMA PcMoves ==
    ASSUME TypeOK, NEW t \in Threads, NEW q \in Points, pc' = [pc EXCEPT ![t] = q]
    PROVE  /\ pc' \in [Threads -> Points]
           /\ pc'[t] = q
           /\ \A s \in Threads : s # t => pc'[s] = pc[s]
BY Zenon DEF TypeOK

\* Thread t may go from the point it is at to q, its locals being what they are.
MayGo(t, q) ==
    /\ q \in {"head"} \cup Busy => a_idx[t] \in Descs
    /\ t = "transport" /\ q \in Busy \ {"uhead"} => u_idx[t] \in Descs
    /\ t = "main" => q \notin {"uhead", "uring", "uidx"}

(* A thread that may go to a point keeps the indices located.               *)
LEMMA LocatedMoves ==
    ASSUME BaseInv, NEW t \in Threads, NEW q \in Points, pc' = [pc EXCEPT ![t] = q],
           UNCHANGED <<a_idx, u_idx>>, MayGo(t, q)
    PROVE  Located' /\ pc' \in [Threads -> Points]
<1>1. /\ pc' \in [Threads -> Points] /\ pc'[t] = q
      /\ \A s \in Threads : s # t => pc'[s] = pc[s]
  BY PcMoves, Zenon DEF BaseInv
<1>2. \A s \in Threads : pc'[s] \in {"head"} \cup Busy => a_idx'[s] \in Descs
  BY <1>1, Zenon DEF BaseInv, Located, MayGo
<1>3. pc'["transport"] \in Busy \ {"uhead"} => u_idx'["transport"] \in Descs
  <2>1. CASE t = "transport"
    BY <1>1, <2>1, Zenon DEF MayGo
  <2>2. CASE t # "transport"
    BY <1>1, <2>2, Zenon DEF BaseInv, Located, Threads
  <2> QED
    BY <2>1, <2>2
<1>4. pc'["main"] \notin {"uhead", "uring", "uidx"}
  <2>1. CASE t = "main"
    BY <1>1, <2>1, Zenon DEF MayGo
  <2>2. CASE t # "main"
    BY <1>1, <2>2, Zenon DEF BaseInv, Located, Threads
  <2> QED
    BY <2>1, <2>2
<1> QED
  BY <1>1, <1>2, <1>3, <1>4, Zenon DEF Located

(* The points put_vring and put_rx_vring go to, in the order of their accesses. *)
LEMMA PutOrder ==
    ASSUME NEW t \in Threads
    PROVE  /\ Then(t, "check") = "head"
           /\ Then(t, "head") = IF t = "main" THEN "copy" ELSE "uhead"
           /\ t # "main" => Then(t, "uhead") = "copy"
           /\ Then(t, "copy") = "desc" /\ Then(t, "desc") = "aslot"
           /\ Then(t, "aslot") = "aring" /\ Then(t, "aring") = "aload"
           /\ Then(t, "aload") = "aidx"
           /\ Then(t, "aidx") = IF t = "main" THEN "kick" ELSE "uring"
           /\ t # "main" => Then(t, "uring") = "uidx" /\ Then(t, "uidx") = "kick"
           /\ Then(t, "refused") = IF t = "main" THEN "kick" ELSE "idle"
BY DEF Then, PutVring, PutRxVring, Threads

(* Where a thread goes that leaves a point by At.                           *)
LEMMA AtMoves ==
    ASSUME BaseInv, NEW t \in Threads, NEW p \in Points, At(t, p),
           p \in {"check", "head", "uhead", "copy", "desc", "aslot", "aring", "aload", "aidx",
                  "uring", "uidx"},
           p = "check" => a_idx[t] \in Descs,
           p = "uhead" => u_idx[t] \in Descs
    PROVE  \E q \in Points : pc' = [pc EXCEPT ![t] = q] /\ MayGo(t, q)
<1>1. /\ pc[t] = p /\ pc' = [pc EXCEPT ![t] = Then(t, p)]
  BY Zenon DEF At
<1>2. p # "check" => a_idx[t] \in Descs
  BY <1>1 DEF BaseInv, Located, Busy
<1>3. t = "transport" /\ p \notin {"check", "head"} => u_idx[t] \in Descs
  BY <1>1 DEF BaseInv, Located, Busy
<1>4. t = "main" => p \notin {"uhead", "uring", "uidx"}
  BY <1>1 DEF BaseInv, Located
<1>5. t \in {"main", "transport"}
  BY DEF Threads
<1>6. Then(t, p) \in Points /\ MayGo(t, Then(t, p))
  <2>1. CASE t = "main"
    BY <1>2, <1>4, <2>1, PutOrder DEF MayGo, Points, Busy
  <2>2. CASE t = "transport"
    BY <1>2, <1>3, <2>2, PutOrder DEF MayGo, Points, Busy
  <2> QED
    BY <1>5, <2>1, <2>2
<1> QED
  BY <1>1, <1>6, Zenon

-----------------------------------------------------------------------------
(* The order of the accesses of put_rx_vring.                               *)
LEMMA RxOrder ==
    /\ Then("transport", "check") = "head" /\ Then("transport", "head") = "uhead"
    /\ Then("transport", "uhead") = "copy" /\ Then("transport", "copy") = "desc"
    /\ Then("transport", "desc") = "aslot" /\ Then("transport", "aslot") = "aring"
    /\ Then("transport", "aring") = "aload" /\ Then("transport", "aload") = "aidx"
    /\ Then("transport", "aidx") = "uring" /\ Then("transport", "uring") = "uidx"
    /\ Then("transport", "uidx") = "kick" /\ Then("transport", "refused") = "idle"
BY DEF Then, PutRxVring

(* A slot of the first pass is its own remainder.                           *)
LEMMA SlotOf ==
    ASSUME NEW x \in Nat
    PROVE  /\ x % Num \in Descs
           /\ x < Num => x % Num = x
           /\ x < Num => (x + 1) % Num = Wrap(x + 1)
<1>1. Num \in Nat /\ Num > 0
  BY RxAssumption
<1>2. x % Num \in Descs
  BY <1>1, SMTT(30) DEF Descs
<1>3. x < Num => x % Num = x
  BY <1>1, SMTT(30)
<1>4. x + 1 < Num => (x + 1) % Num = x + 1
  BY <1>1, SMTT(30)
<1>5. Num % Num = 0
  BY <1>1, SMTT(30)
<1> QED
  BY <1>1, <1>2, <1>3, <1>4, <1>5 DEF Wrap

(* The counters are numbers, and so are the parts of a frame in hand.       *)
LEMMA BaseNumbers ==
    ASSUME TypeOK, NEW t \in Threads
    PROVE  /\ heads \in Nat /\ used_idx \in Nat /\ guest_used \in Nat /\ avail_idx \in Nat
           /\ Num \in Nat /\ Num > 0
           /\ frame[t].id \in 0..MaxFrames /\ frame[t].size \in Nat
           /\ HdrLen + frame[t].size \in Nat
<1>1. /\ {avail_idx, used_idx, guest_used, heads} \subseteq Nat
      /\ frame[t] \in [id : 0..MaxFrames, size : Nat]
  BY Zenon DEF TypeOK
<1> QED
  BY <1>1, RxAssumption, SMT

(* At the beginning nobody has begun a put.                                 *)
LEMMA InitBase == Init => BaseInv
<1> SUFFICES ASSUME Init PROVE BaseInv
  OBVIOUS
<1>1. Num \in Nat /\ Num > 0 /\ 0 \in Descs /\ 0 \in Heads
  BY RxAssumption DEF Descs, Heads
<1>2. \A d \in Descs : (d + 1) % Num \in Heads
  <2> TAKE d \in Descs
  <2>1. d + 1 \in Nat
    BY <1>1 DEF Descs
  <2> QED
    BY <2>1, SlotOf, Zenon DEF Heads
<1>3. 0 \in 0..MaxFrames /\ BufLen \in Nat
  BY RxAssumption
<1>4. desc \in [Descs -> [len : Nat, next : Heads]]
  BY <1>2, <1>3 DEF Init
<1>5. got \in Seq(Entry) /\ sent \in Seq(Entry)
  BY DEF Init
<1>6. used_ring \in [Descs -> [id : Descs, len : Nat]]
  BY <1>1 DEF Init
<1>7. frame \in [Threads -> [id : 0..MaxFrames, size : Nat]]
  BY <1>3 DEF Init
<1>8. /\ a_idx \in [Threads -> Heads] /\ u_idx \in [Threads -> Heads]
      /\ buf \in [Descs -> 0..MaxFrames] /\ avail_ring \in [Descs -> Descs]
      /\ idx \in [Threads -> Nat]
  BY <1>1, <1>3 DEF Init
<1>9. /\ {avail_idx, used_idx, guest_used, heads} \subseteq Nat
      /\ frames \in 0..MaxFrames
      /\ {last_avail_idx, last_used_idx} \subseteq Heads
  BY <1>1, <1>3 DEF Init
<1>10. /\ {callfd, napi} \subseteq BOOLEAN /\ spare \subseteq Descs /\ open \subseteq Descs
  BY Zenon DEF Init
<1>11. pc \in [Threads -> Points]
  BY DEF Init, Points
<1>12. TypeOK
  BY <1>4, <1>5, <1>6, <1>7, <1>8, <1>9, <1>10, <1>11, Zenon DEF TypeOK
<1>13. Located
  BY DEF Init, Located, Threads, Busy
<1> QED
  BY <1>12, <1>13, Zenon DEF BaseInv

(* The steps that begin a put or leave it.                                  *)
LEMMA BaseEnds ==
    ASSUME BaseInv, NEW t \in Threads,
           \/ WildIndex(t) \/ PutRefused(t) \/ PutAccepted(t) \/ Kick(t)
           \/ \E n \in Sizes : PutStart(t, n)
    PROVE  BaseInv'
<1> USE DEF ring, guest, avail, used, last, locals, hist
<1>1. CASE WildIndex(t) \/ PutRefused(t) \/ PutAccepted(t) \/ Kick(t)
  <2>1. PICK q \in Points : pc' = [pc EXCEPT ![t] = q] /\ MayGo(t, q)
    <3>1. CASE PutAccepted(t)
      BY <3>1, AtMoves, SMTT(60) DEF PutAccepted, Points
    <3>2. CASE WildIndex(t) \/ PutRefused(t) \/ Kick(t)
      <4>1. \E q \in {"undefined", "kick", "idle"} : pc' = [pc EXCEPT ![t] = q]
        BY <3>2, PutOrder DEF WildIndex, PutRefused, Kick
      <4>2. \A q \in {"undefined", "kick", "idle"} : q \in Points /\ MayGo(t, q)
        BY DEF Points, MayGo, Busy
      <4> QED
        BY <4>1, <4>2, Zenon
    <3> QED
      BY <1>1, <3>1, <3>2, Zenon
  <2>2. /\ UNCHANGED <<desc, buf, avail, used, guest, last, locals, hist>>
        /\ callfd' \in BOOLEAN
    BY <1>1, Zenon DEF WildIndex, PutRefused, PutAccepted, Kick, BaseInv, TypeOK
  <2>3. Located' /\ pc' \in [Threads -> Points]
    BY <2>1, <2>2, LocatedMoves, Zenon
  <2> QED
    BY <2>2, <2>3, ZenonT(60) DEF BaseInv, TypeOK
<1>2. ASSUME NEW n \in Sizes, PutStart(t, n) PROVE BaseInv'
  <2>1. /\ pc' = [pc EXCEPT ![t] = "check"] /\ "check" \in Points
        /\ UNCHANGED <<ring, guest, last, idx, heads, sent, open>>
    BY <1>2, Zenon DEF PutStart, Points
  <2>2. /\ pc' \in [Threads -> Points] /\ pc'[t] = "check"
        /\ \A s \in Threads : s # t => pc'[s] = pc[s]
    BY <2>1, PcMoves, Zenon DEF BaseInv
  <2>3. frames' \in 0..MaxFrames /\ frames + 1 \in 0..MaxFrames /\ n \in Nat
    BY <1>2, RxAssumption, SMTT(60) DEF BaseInv, TypeOK, PutStart
  <2>4. /\ frame' \in [Threads -> [id : 0..MaxFrames, size : Nat]]
        /\ a_idx' \in [Threads -> Heads] /\ u_idx' \in [Threads -> Heads]
        /\ \A s \in Threads : s # t => a_idx'[s] = a_idx[s] /\ u_idx'[s] = u_idx[s]
    BY <1>2, <2>3, Zenon DEF BaseInv, TypeOK, PutStart
  <2>5. TypeOK'
    BY <2>1, <2>2, <2>3, <2>4, ZenonT(60) DEF BaseInv, TypeOK
  <2>6. Located'
    BY <2>2, <2>4, ZenonT(60) DEF BaseInv, Located, Busy, Threads
  <2> QED
    BY <2>5, <2>6, Zenon DEF BaseInv
<1> QED
  BY <1>1, <1>2, Zenon

(* The steps of a put on its way.                                           *)
LEMMA BaseWay ==
    ASSUME BaseInv, NEW t \in Threads,
           \/ MoveHead(t) \/ MoveUsedHead(t) \/ CopyFrame(t) \/ SetDesc(t)
           \/ LoadAvail(t) \/ AddAvail(t) \/ BumpAvail(t) \/ AddUsed(t) \/ BumpUsed(t)
    PROVE  BaseInv'
<1> USE DEF ring, guest, avail, used, last, locals, hist
<1> DEFINE Way == {"head", "uhead", "copy", "desc", "aslot", "aring", "aload", "aidx",
                   "uring", "uidx"}
<1>1. /\ UNCHANGED <<callfd, guest, a_idx, u_idx, frame, frames>>
      /\ \E p \in Way : At(t, p) /\ (p = "uhead" => u_idx[t] \in Descs)
  BY DEF MoveHead, MoveUsedHead, CopyFrame, SetDesc, LoadAvail, AddAvail, BumpAvail, AddUsed,
     BumpUsed
<1>2. PICK p \in Way : At(t, p) /\ (p = "uhead" => u_idx[t] \in Descs)
  BY <1>1, Zenon
<1>3. p \in Points /\ p # "check"
  BY <1>2, SMTT(60) DEF Points
<1>4. \E q \in Points : pc' = [pc EXCEPT ![t] = q] /\ MayGo(t, q)
  BY <1>2, <1>3, AtMoves
<1>5. Located' /\ pc' \in [Threads -> Points]
  BY <1>1, <1>4, LocatedMoves, Zenon
<1>6. /\ heads \in Nat /\ used_idx \in Nat /\ avail_idx \in Nat
      /\ frame[t].id \in 0..MaxFrames /\ HdrLen + frame[t].size \in Nat
  BY BaseNumbers, Zenon DEF BaseInv
<1>7. pc[t] = p /\ pc[t] \in {"head"} \cup Busy /\ a_idx[t] \in Descs
  BY <1>2, Zenon DEF At, BaseInv, Located, Busy
<1>8. u_idx[t] \in Descs \/ pc[t] \notin {"uhead", "uring"}
  BY <1>2, <1>7 DEF BaseInv, Located, Busy, Threads
<1>9. VRING_IDX_NONE \in Heads
  BY Zenon DEF Heads
<1>10. CASE MoveHead(t)
  <2>1. last_avail_idx' \in Heads /\ heads' \in Nat
    <3>1. desc[a_idx[t]].next \in Heads
      BY <1>7, Zenon DEF BaseInv, TypeOK
    <3> QED
      BY <1>6, <1>10, <3>1 DEF MoveHead
  <2> QED
    BY <1>5, <1>10, <2>1, ZenonT(60) DEF BaseInv, TypeOK, MoveHead
<1>11. CASE MoveUsedHead(t)
  <2>1. desc[u_idx[t]].next \in Heads
    BY <1>11, Zenon DEF BaseInv, TypeOK, MoveUsedHead
  <2> QED
    BY <1>5, <1>11, <2>1, ZenonT(60) DEF BaseInv, TypeOK, MoveUsedHead
<1>12. CASE CopyFrame(t)
  <2>1. buf' \in [Descs -> 0..MaxFrames] /\ open' \subseteq Descs
    BY <1>6, <1>7, <1>12, Zenon DEF BaseInv, TypeOK, CopyFrame
  <2> QED
    BY <1>5, <1>12, <2>1, ZenonT(60) DEF BaseInv, TypeOK, CopyFrame
<1>13. CASE SetDesc(t)
  <2>1. desc' \in [Descs -> [len : Nat, next : Heads]]
    BY <1>6, <1>7, <1>9, <1>13, Zenon DEF BaseInv, TypeOK, SetDesc
  <2> QED
    BY <1>5, <1>13, <2>1, ZenonT(60) DEF BaseInv, TypeOK, SetDesc
<1>a. idx \in [Threads -> Nat] /\ idx[t] \in Nat
  BY Zenon DEF BaseInv, TypeOK
<1>14. CASE AddAvail(t)
  <2>1. avail_ring' \in [Descs -> Descs]
    BY <1>7, <1>14, Zenon DEF BaseInv, TypeOK, AddAvail
  <2>2. idx' \in [Threads -> Nat]
    BY <1>a, <1>14 DEF AddAvail
  <2> QED
    BY <1>5, <1>14, <2>1, <2>2, ZenonT(60) DEF BaseInv, TypeOK, AddAvail
<1>15. CASE BumpAvail(t)
  <2>1. avail_idx' \in Nat /\ idx' \in [Threads -> Nat]
    BY <1>a, <1>15 DEF BumpAvail
  <2> QED
    BY <1>5, <1>15, <2>1, ZenonT(60) DEF BaseInv, TypeOK, BumpAvail
<1>16. CASE AddUsed(t)
  <2>1. u_idx[t] \in Descs
    BY <1>8, <1>16, Zenon DEF AddUsed, At
  <2>2. used_ring' \in [Descs -> [id : Descs, len : Nat]]
    BY <1>6, <1>16, <2>1, Zenon DEF BaseInv, TypeOK, AddUsed
  <2> QED
    BY <1>5, <1>16, <2>2, ZenonT(60) DEF BaseInv, TypeOK, AddUsed
<1>17. CASE BumpUsed(t)
  <2> DEFINE e == [id |-> frame[t].id, len |-> HdrLen + frame[t].size]
  <2>1. e \in Entry /\ sent' = Append(sent, e) /\ sent \in Seq(Entry)
    BY <1>6, <1>17, Zenon DEF Entry, BumpUsed, BaseInv, TypeOK
  <2> HIDE DEF e
  <2>2. sent' \in Seq(Entry)
    BY <2>1, SMT
  <2>3. used_idx' \in Nat
    BY <1>6, <1>17 DEF BumpUsed
  <2> QED
    BY <1>5, <1>17, <2>2, <2>3, ZenonT(60) DEF BaseInv, TypeOK, BumpUsed
<1>18. CASE LoadAvail(t)
  <2>1. idx' \in [Threads -> Nat]
    BY <1>a, <1>6, <1>18 DEF LoadAvail
  <2> QED
    BY <1>5, <1>18, <2>1, ZenonT(60) DEF BaseInv, TypeOK, LoadAvail
<1> QED
  BY <1>10, <1>11, <1>12, <1>13, <1>14, <1>15, <1>16, <1>17, <1>18, Zenon

(* The guest's steps touch no index of the server.                          *)
LEMMA BaseGuest ==
    ASSUME BaseInv,
           \/ GuestInterrupt \/ GuestIdle \/ GuestTake
           \/ \E d, n \in Descs : GuestPost(d, n)
    PROVE  BaseInv'
<1> USE DEF ring, guest, avail, used, last, locals, hist, server
<1>1. UNCHANGED server
  BY Zenon DEF GuestInterrupt, GuestIdle, GuestTake, GuestPost
<1>2. Located'
  BY <1>1, Zenon DEF BaseInv, Located
<1>3. guest_used \in Nat /\ avail_idx \in Nat /\ BufLen \in Nat
  BY RxAssumption, BaseNumbers, Zenon DEF BaseInv, Threads
<1>4. CASE GuestInterrupt \/ GuestIdle
  <2>1. callfd' \in BOOLEAN /\ napi' \in BOOLEAN
    BY <1>4, Zenon DEF GuestInterrupt, GuestIdle, BaseInv, TypeOK
  <2>2. UNCHANGED <<desc, buf, avail, used, guest_used, got, spare, server, hist>>
    BY <1>4, Zenon DEF GuestInterrupt, GuestIdle
  <2> QED
    BY <1>2, <2>1, <2>2, ZenonT(60) DEF BaseInv, TypeOK
<1>5. CASE GuestTake
  <2> DEFINE r == used_ring[guest_used % Num]
             g == [id |-> buf[r.id], len |-> r.len]
  <2>1. guest_used % Num \in Descs
    BY <1>3, SlotOf, Zenon
  <2>2. r.id \in Descs /\ g \in Entry
    BY <2>1, Zenon DEF BaseInv, TypeOK, Entry
  <2>3. /\ got' = Append(got, g) /\ guest_used' = guest_used + 1
        /\ spare' = spare \cup {r.id} /\ got \in Seq(Entry)
        /\ UNCHANGED <<ring, napi, server, hist>>
    BY <1>5, Zenon DEF GuestTake, BaseInv, TypeOK
  <2> HIDE DEF g, r
  <2>4. got' \in Seq(Entry) /\ guest_used' \in Nat
    BY <1>3, <2>2, <2>3, SMT
  <2>5. spare' \subseteq Descs
    BY <2>2, <2>3, Zenon DEF BaseInv, TypeOK
  <2> QED
    BY <1>2, <2>3, <2>4, <2>5, ZenonT(60) DEF BaseInv, TypeOK
<1>6. ASSUME NEW d \in Descs, NEW n \in Descs, GuestPost(d, n) PROVE BaseInv'
  <2>1. desc' \in [Descs -> [len : Nat, next : Heads]]
    BY <1>3, <1>6, Zenon DEF BaseInv, TypeOK, GuestPost, Heads
  <2>2. /\ avail_ring' \in [Descs -> Descs]
        /\ spare' \subseteq Descs /\ open' \subseteq Descs
    <3>1. avail_ring \in [Descs -> Descs] /\ spare \subseteq Descs /\ open \subseteq Descs
      BY Zenon DEF BaseInv, TypeOK
    <3> QED
      BY <1>6, <3>1, ZenonT(60) DEF GuestPost
  <2>3. avail_idx' \in Nat
    BY <1>3, <1>6 DEF GuestPost
  <2>4. UNCHANGED <<buf, used, callfd, napi, guest_used, got, server, frames, heads, sent>>
    BY <1>6, Zenon DEF GuestPost
  <2> QED
    BY <1>2, <2>1, <2>2, <2>3, <2>4, ZenonT(60) DEF BaseInv, TypeOK
<1> QED
  BY <1>4, <1>5, <1>6, Zenon

(* Every step keeps the types.                                              *)
LEMMA NextBase == BaseInv /\ [Next]_vars => BaseInv'
<1> SUFFICES ASSUME BaseInv, [Next]_vars PROVE BaseInv'
  OBVIOUS
<1>1. CASE UNCHANGED vars
  BY <1>1, ZenonT(60) DEF BaseInv, TypeOK, Located, vars, ring, guest, avail, used, last,
     locals, hist, server
<1>2. ASSUME NEW t \in Threads, PutStep(t) PROVE BaseInv'
  BY <1>2, BaseEnds, BaseWay, Zenon DEF PutStep
<1>3. ASSUME NEW t \in Threads, NEW n \in Sizes, PutStart(t, n) PROVE BaseInv'
  BY <1>3, BaseEnds, Zenon
<1>4. CASE \/ GuestInterrupt \/ GuestIdle \/ GuestTake
           \/ \E d, n \in Descs : GuestPost(d, n)
  BY <1>4, BaseGuest, Zenon
<1> QED
  BY <1>1, <1>2, <1>3, <1>4, Zenon DEF Next

(* A thread that has begun no put does not go on with one.                  *)
LEMMA IdleThread ==
    ASSUME NEW t \in Threads, pc[t] = "idle", PutStep(t)
    PROVE  FALSE
BY DEF PutStep, WildIndex, PutRefused, PutAccepted, MoveHead, MoveUsedHead, CopyFrame,
   SetDesc, LoadAvail, AddAvail, BumpAvail, AddUsed, BumpUsed, Kick, At

(* A put takes a frame number.                                              *)
LEMMA StartNumbers ==
    ASSUME TypeOK, NEW t \in Threads, NEW n \in Sizes, PutStart(t, n)
    PROVE  ~Idle(t)'
<1>1. frame'[t].id = frames + 1
  BY Zenon DEF PutStart, TypeOK
<1>2. frames \in Nat
  BY RxAssumption DEF TypeOK
<1> QED
  BY <1>1, <1>2 DEF Idle

(* The variables of the receive ring keep their types, whichever threads    *)
(* put frames: in particular an index that reaches the descriptor table or  *)
(* the used ring has passed the check that it is in the table.              *)
THEOREM RxTypeCorrect == Spec => []TypeOK
<1>1. BaseInv => TypeOK
  BY Zenon DEF BaseInv
<1> QED
  BY InitBase, NextBase, <1>1, PTL DEF Spec

-----------------------------------------------------------------------------
(* The counters are numbers, and so are the parts of the frame in hand.     *)
LEMMA RxNumbers ==
    ASSUME RxInv
    PROVE  /\ heads \in Nat /\ used_idx \in Nat /\ guest_used \in Nat /\ avail_idx \in Nat
           /\ guest_used <= used_idx /\ Num \in Nat /\ Num > 0
           /\ frame["transport"].id \in 0..MaxFrames
           /\ frame["transport"].size \in Nat
           /\ HdrLen + frame["transport"].size \in Nat
BY BaseNumbers, Zenon DEF RxInv, PassInv, Counts, Threads

(* Before the first frame everything is as the guest posted it.             *)
LEMMA InitRx == Init => RxInv
<1> SUFFICES ASSUME Init PROVE RxInv
  OBVIOUS
<1>1. Num \in Nat /\ Num > 0 /\ 0 \in Descs /\ 0 \in Heads
  BY RxAssumption DEF Descs, Heads
<1>2. \A d \in Descs : (d + 1) % Num = Wrap(d + 1) /\ (d + 1) % Num \in Heads
  <2> TAKE d \in Descs
  <2>1. d \in Nat /\ d < Num /\ d + 1 \in Nat
    BY <1>1 DEF Descs
  <2>2. (d + 1) % Num \in Descs
    BY <2>1, SlotOf
  <2> QED
    BY <2>1, <2>2, SlotOf DEF Heads
<1>3. TypeOK
  BY InitBase, Zenon DEF BaseInv
<1>4. Counts
  BY DEF Init, Counts, Threads, Busy
<1>5. pc["transport"] = "idle" /\ heads = 0
  BY DEF Init, Threads
<1>6. HeadsAgree(0, "idle", a_idx["transport"], u_idx["transport"])
  BY <1>1 DEF Init, HeadsAgree, Wrap, Busy
<1>7. Ahead(0, "idle")
  BY <1>1, <1>2, Zenon DEF Init, Ahead
<1>8. Visible /\ InHand(0, "idle", frame["transport"])
  BY DEF Init, Visible, InHand, Copied, Busy
<1> QED
  BY <1>3, <1>4, <1>5, <1>6, <1>7, <1>8 DEF RxInv, PassInv, Pass, FirstPass

-----------------------------------------------------------------------------
(* What moving the transport thread to another point does to pc.            *)
LEMMA TransportMoves ==
    ASSUME TypeOK, NEW q \in Points, pc' = [pc EXCEPT !["transport"] = q]
    PROVE  /\ pc' \in [Threads -> Points]
           /\ pc'["transport"] = q
           /\ pc'["main"] = pc["main"]
BY PcMoves, Zenon DEF Threads

(* The steps that read an index outside the table are none of the first pass. *)
LEMMA WildStep ==
    ASSUME RxInv, WildIndex("transport")
    PROVE  PassInv'
<1> USE DEF ring, guest, avail, used, last, locals, hist
<1>1. /\ pc' \in [Threads -> Points] /\ pc'["transport"] = "undefined"
      /\ pc'["main"] = pc["main"]
  <2>1. "undefined" \in Points
    BY DEF Points
  <2> QED
    BY <2>1, TransportMoves, Zenon DEF RxInv, WildIndex
<1>2. Counts'
  BY <1>1 DEF RxInv, PassInv, Counts, WildIndex, Busy
<1>3. ~(heads <= Num)
  <2> SUFFICES ASSUME heads <= Num PROVE FALSE
    OBVIOUS
  <2>1. heads \in Nat /\ used_idx \in Nat /\ Num \in Nat /\ Num > 0
    BY RxNumbers, Zenon
  <2>2. HeadsAgree(heads, pc["transport"], a_idx["transport"], u_idx["transport"])
    BY DEF RxInv, PassInv, Pass, FirstPass
  <2>3. CASE pc["transport"] = "check" /\ a_idx["transport"] \notin Descs
    BY <2>1, <2>2, <2>3 DEF HeadsAgree, Wrap, Descs
  <2>4. CASE pc["transport"] = "uhead" /\ u_idx["transport"] \notin Descs
    BY <2>1, <2>2, <2>4 DEF HeadsAgree, Busy, Descs
  <2> QED
    BY <2>3, <2>4 DEF WildIndex
<1> QED
  BY <1>2, <1>3 DEF PassInv, WildIndex, hist

(* Steps that only move the thread, write to the avail ring or kick.        *)
LEMMA QuietSteps ==
    ASSUME RxInv,
           \/ PutRefused("transport") \/ PutAccepted("transport") \/ Kick("transport")
           \/ LoadAvail("transport") \/ AddAvail("transport") \/ BumpAvail("transport")
    PROVE  PassInv'
<1> USE DEF ring, guest, avail, used, last, locals, hist
<1> DEFINE Moves(q) ==
           \/ pc["transport"] = "check" /\ q = "idle"
           \/ pc["transport"] = "check" /\ q = "head" /\ a_idx["transport"] \in Descs
           \/ pc["transport"] = "kick" /\ q = "idle"
           \/ pc["transport"] = "aslot" /\ q = "aring"
           \/ pc["transport"] = "aring" /\ q = "aload"
           \/ pc["transport"] = "aload" /\ q = "aidx"
           \/ pc["transport"] = "aidx" /\ q = "uring"
<1>1. \E q \in Points : pc' = [pc EXCEPT !["transport"] = q] /\ Moves(q)
  BY RxOrder DEF PutRefused, PutAccepted, Kick, LoadAvail, AddAvail, BumpAvail, At, Points
<1>2. PICK q \in Points : pc' = [pc EXCEPT !["transport"] = q] /\ Moves(q)
  BY <1>1, Zenon
<1>3. /\ pc' \in [Threads -> Points] /\ pc'["transport"] = q
      /\ pc'["main"] = pc["main"]
  BY <1>2, TransportMoves, Zenon DEF RxInv
<1>4. UNCHANGED <<desc, buf, used, guest, last, a_idx, u_idx, frame, hist>>
  BY ZenonT(60) DEF PutRefused, PutAccepted, Kick, LoadAvail, AddAvail, BumpAvail
<1>5. Counts'
  BY <1>2, <1>3, <1>4, Zenon DEF RxInv, PassInv, Counts, Busy
<1>6. ASSUME heads' <= Num PROVE Pass'
  <2>1. Pass
    BY <1>4, <1>6, SMTT(60) DEF RxInv, PassInv
  <2>2. HeadsAgree(heads, pc["transport"], a_idx["transport"], u_idx["transport"])'
    BY <1>2, <1>3, <1>4, <2>1 DEF Pass, FirstPass, HeadsAgree, Busy
  <2>3. Ahead(heads, pc["transport"])'
    BY <1>2, <1>3, <1>4, <2>1, SMTT(60) DEF Pass, FirstPass, Ahead
  <2>4. Visible'
    BY <1>4, <2>1, SMTT(60) DEF Pass, FirstPass, Visible
  <2>5. InHand(heads, pc["transport"], frame["transport"])'
    BY <1>2, <1>3, <1>4, <2>1 DEF Pass, FirstPass, InHand, Copied, Busy
  <2> QED
    BY <2>2, <2>3, <2>4, <2>5 DEF Pass, FirstPass
<1> QED
  BY <1>5, <1>6, SMTT(60) DEF PassInv

(* A put begins with the heads as they are.                                 *)
LEMMA StartStep ==
    ASSUME RxInv, NEW n \in Sizes, PutStart("transport", n)
    PROVE  PassInv'
<1> USE DEF ring, guest, avail, used, last, locals, hist
<1>1. /\ pc' \in [Threads -> Points] /\ pc'["transport"] = "check"
      /\ pc'["main"] = pc["main"]
  <2>1. "check" \in Points
    BY DEF Points
  <2> QED
    BY <2>1, TransportMoves, Zenon DEF RxInv, PutStart
<1>2. /\ a_idx'["transport"] = last_avail_idx /\ u_idx'["transport"] = last_used_idx
  BY Zenon DEF RxInv, TypeOK, PutStart, Threads
<1>3. Counts'
  BY <1>1 DEF RxInv, PassInv, Counts, PutStart, Busy
<1>4. ASSUME heads' <= Num PROVE Pass'
  <2>1. Pass /\ pc["transport"] = "idle"
    BY <1>4, SMTT(60) DEF RxInv, PassInv, Pass, PutStart
  <2>2. HeadsAgree(heads, pc["transport"], a_idx["transport"], u_idx["transport"])'
    BY <1>1, <1>2, <2>1 DEF Pass, FirstPass, HeadsAgree, Busy, PutStart
  <2>3. Ahead(heads, pc["transport"])'
    BY <1>1, <2>1, SMTT(60) DEF Pass, FirstPass, Ahead, PutStart
  <2>4. Visible'
    BY <2>1 DEF Pass, FirstPass, Visible, PutStart
  <2>5. InHand(heads, pc["transport"], frame["transport"])'
    BY <1>1 DEF InHand, Copied, Busy
  <2> QED
    BY <2>2, <2>3, <2>4, <2>5 DEF Pass, FirstPass
<1> QED
  BY <1>3, <1>4 DEF PassInv

(* The heads move to the next descriptor, one after the other.              *)
LEMMA HeadSteps ==
    ASSUME RxInv, MoveHead("transport") \/ MoveUsedHead("transport")
    PROVE  PassInv'
<1> USE DEF ring, guest, avail, used, last, locals, hist
<1> DEFINE tp == pc["transport"]
           a == a_idx["transport"]
           u == u_idx["transport"]
<1>1. heads \in Nat /\ used_idx \in Nat /\ guest_used \in Nat /\ Num \in Nat /\ Num > 0
  BY RxNumbers, Zenon
<1>2. CASE MoveHead("transport")
  <2>1. /\ tp = "head" /\ a \in Descs
        /\ pc' \in [Threads -> Points] /\ pc'["transport"] = "uhead"
        /\ pc'["main"] = pc["main"]
    <3>1. "uhead" \in Points /\ pc["transport"] = "head"
      BY <1>2 DEF Points, MoveHead, At
    <3>2. pc' = [pc EXCEPT !["transport"] = "uhead"]
      BY <1>2, RxOrder, ZenonT(60) DEF MoveHead, At
    <3> QED
      BY <3>1, <3>2, TransportMoves, ZenonT(60) DEF RxInv, PassInv, Counts
  <2>2. Counts'
    BY <1>2, <2>1 DEF RxInv, PassInv, Counts, MoveHead, Busy
  <2>3. ASSUME heads' <= Num PROVE Pass'
    <3>1. heads' = heads + 1 /\ heads < Num /\ heads <= Num /\ heads \in Descs
      BY <1>1, <1>2, <2>3 DEF MoveHead, Descs
    <3>2. Pass
      BY <3>1 DEF RxInv, PassInv, Pass
    <3>3. heads = used_idx /\ a = heads /\ u = heads /\ last_used_idx = heads
      BY <1>1, <2>1, <3>1, <3>2 DEF Pass, FirstPass, HeadsAgree, Busy, Wrap
    <3>4. desc[heads].next = Wrap(heads + 1) /\ heads \in open
      <4>1. Ahead(heads, tp)
        BY <3>2, Zenon DEF Pass, FirstPass
      <4> QED
        BY <1>1, <3>1, <4>1, SMT DEF Ahead
    <3>5. HeadsAgree(heads, pc["transport"], a_idx["transport"], u_idx["transport"])'
      BY <1>1, <1>2, <2>1, <3>1, <3>3, <3>4 DEF HeadsAgree, Busy, MoveHead
    <3>6. Ahead(heads, pc["transport"])'
      <4>1. Ahead(heads, tp) /\ UNCHANGED <<desc, open>>
        BY <1>2, <3>2, Zenon DEF Pass, FirstPass, MoveHead
      <4>2. heads' - 1 = heads /\ \A d \in Descs : d >= heads' => d >= heads
        BY <1>1, <3>1, SMT DEF Descs
      <4> QED
        BY <2>1, <3>1, <3>4, <4>1, <4>2, ZenonT(60) DEF Ahead
    <3>7. Visible'
      BY <1>2, <3>2, Zenon DEF Pass, FirstPass, Visible, MoveHead
    <3>8. InHand(heads, pc["transport"], frame["transport"])'
      BY <2>1, Zenon DEF InHand, Copied, Busy
    <3> QED
      BY <3>5, <3>6, <3>7, <3>8, Zenon DEF Pass, FirstPass
  <2> QED
    BY <2>2, <2>3, Zenon DEF PassInv
<1>3. CASE MoveUsedHead("transport")
  <2>1. /\ tp = "uhead" /\ a \in Descs /\ u \in Descs
        /\ pc' \in [Threads -> Points] /\ pc'["transport"] = "copy"
        /\ pc'["main"] = pc["main"]
    <3>1. "copy" \in Points /\ pc["transport"] = "uhead" /\ u \in Descs
      BY <1>3, Zenon DEF Points, MoveUsedHead, At
    <3>2. pc' = [pc EXCEPT !["transport"] = "copy"]
      BY <1>3, RxOrder, Zenon DEF MoveUsedHead, At
    <3> QED
      BY <3>1, <3>2, TransportMoves, Zenon DEF RxInv, PassInv, Counts, Busy
  <2>2. Counts'
    BY <1>3, <2>1, Zenon DEF RxInv, PassInv, Counts, MoveUsedHead, Busy
  <2>3. ASSUME heads' <= Num PROVE Pass'
    <3>1. Pass
      BY <1>3, <2>3, ZenonT(60) DEF RxInv, PassInv, Pass, MoveUsedHead
    <3>2. a = heads - 1 /\ u = heads - 1 /\ desc[heads - 1].next = Wrap(heads)
      BY <2>1, <3>1, Zenon DEF Pass, FirstPass, HeadsAgree, Ahead, Busy
    <3>3. HeadsAgree(heads, pc["transport"], a_idx["transport"], u_idx["transport"])'
      BY <1>1, <1>3, <2>1, <3>1, <3>2, Zenon DEF Pass, FirstPass, HeadsAgree, Busy, MoveUsedHead
    <3>4. Ahead(heads, pc["transport"])'
      BY <1>3, <2>1, <3>1, ZenonT(60) DEF Pass, FirstPass, Ahead, MoveUsedHead
    <3>5. Visible'
      BY <1>3, <3>1, Zenon DEF Pass, FirstPass, Visible, MoveUsedHead
    <3>6. InHand(heads, pc["transport"], frame["transport"])'
      BY <2>1, Zenon DEF InHand, Copied, Busy
    <3> QED
      BY <3>3, <3>4, <3>5, <3>6, Zenon DEF Pass, FirstPass
  <2> QED
    BY <2>2, <2>3, Zenon DEF PassInv
<1> QED
  BY <1>2, <1>3, Zenon

(* The frame is copied into the buffer at the head the put has read.        *)
LEMMA CopyStep ==
    ASSUME RxInv, CopyFrame("transport")
    PROVE  PassInv'
<1> USE DEF ring, guest, avail, used, last, locals, hist
<1> DEFINE a == a_idx["transport"]
           f == frame["transport"]
<1>1. heads \in Nat /\ used_idx \in Nat /\ Num \in Nat /\ f.id \in 0..MaxFrames
  BY RxNumbers, Zenon
<1>2. /\ pc["transport"] = "copy" /\ a \in Descs
      /\ pc' \in [Threads -> Points] /\ pc'["transport"] = "desc"
      /\ pc'["main"] = pc["main"]
  <2>1. "desc" \in Points /\ pc["transport"] = "copy"
    BY Zenon DEF Points, CopyFrame, At
  <2>2. pc' = [pc EXCEPT !["transport"] = "desc"]
    BY RxOrder, Zenon DEF CopyFrame, At
  <2> QED
    BY <2>1, <2>2, TransportMoves, Zenon DEF RxInv, PassInv, Counts, Busy
<1>3. Counts'
  BY <1>2, Zenon DEF RxInv, PassInv, Counts, CopyFrame, Busy
<1>4. ASSUME heads' <= Num PROVE Pass'
  <2>1. Pass
    BY <1>4, Zenon DEF RxInv, PassInv, Pass, CopyFrame
  <2>2. a = heads - 1 /\ used_idx = heads - 1
    BY <1>1, <1>2, <2>1 DEF Pass, FirstPass, HeadsAgree, Busy
  <2>3. buf'[heads - 1] = f.id /\ \A x \in Nat : x < used_idx => buf'[x] = buf[x]
    BY <1>1, <1>2, <2>2 DEF CopyFrame, RxInv, TypeOK, Descs
  <2>4. HeadsAgree(heads, pc["transport"], a_idx["transport"], u_idx["transport"])'
    BY <1>2, <2>1, Zenon DEF Pass, FirstPass, HeadsAgree, Busy, CopyFrame
  <2>5. Ahead(heads, pc["transport"])'
    BY <1>1, <1>2, <2>1, <2>2, SMTT(60) DEF Pass, FirstPass, Ahead, CopyFrame, Descs
  <2>6. Visible'
    BY <2>1, <2>3, Zenon DEF Pass, FirstPass, Visible, CopyFrame
  <2>7. InHand(heads, pc["transport"], frame["transport"])'
    BY <1>2, <2>3, Zenon DEF InHand, CopyFrame
  <2> QED
    BY <2>4, <2>5, <2>6, <2>7, Zenon DEF Pass, FirstPass
<1> QED
  BY <1>3, <1>4, Zenon DEF PassInv

(* The descriptor that is closed is behind the head.                        *)
LEMMA DescStep ==
    ASSUME RxInv, SetDesc("transport")
    PROVE  PassInv'
<1> USE DEF ring, guest, avail, used, last, locals, hist
<1> DEFINE a == a_idx["transport"]
           f == frame["transport"]
<1>1. /\ heads \in Nat /\ used_idx \in Nat /\ Num \in Nat
      /\ HdrLen + f.size \in Nat /\ VRING_IDX_NONE \in Heads
  <2>1. f.size \in Nat
    BY Zenon DEF RxInv, TypeOK, Threads
  <2>2. VRING_IDX_NONE \in Heads
    BY Zenon DEF Heads
  <2> HIDE DEF f
  <2> QED
    BY <2>1, <2>2, RxAssumption, SMTT(60) DEF RxInv, TypeOK
<1>2. /\ pc["transport"] = "desc" /\ a \in Descs
      /\ pc' \in [Threads -> Points] /\ pc'["transport"] = "aslot"
      /\ pc'["main"] = pc["main"]
  <2>1. "aslot" \in Points /\ pc["transport"] = "desc"
    BY Zenon DEF Points, SetDesc, At
  <2>2. pc' = [pc EXCEPT !["transport"] = "aslot"]
    BY RxOrder, Zenon DEF SetDesc, At
  <2> QED
    BY <2>1, <2>2, TransportMoves, Zenon DEF RxInv, PassInv, Counts, Busy
<1>3. /\ desc' \in [Descs -> [len : Nat, next : Heads]]
      /\ \A d \in Descs : d # a => desc'[d] = desc[d]
  BY <1>1, <1>2, Zenon DEF RxInv, TypeOK, SetDesc
<1>4. Counts'
  BY <1>2, Zenon DEF RxInv, PassInv, Counts, SetDesc, Busy
<1>5. ASSUME heads' <= Num PROVE Pass'
  <2>1. Pass
    BY <1>5, Zenon DEF RxInv, PassInv, Pass, SetDesc
  <2>2. a = heads - 1
    BY <1>2, <2>1, Zenon DEF Pass, FirstPass, HeadsAgree, Busy
  <2>3. HeadsAgree(heads, pc["transport"], a_idx["transport"], u_idx["transport"])'
    BY <1>2, <2>1, Zenon DEF Pass, FirstPass, HeadsAgree, Busy, SetDesc
  <2>4. \A d \in Descs : d >= heads => desc'[d] = desc[d]
    BY <1>1, <1>3, <2>2, SMTT(60) DEF Descs
  <2>5. Ahead(heads, pc["transport"])'
    BY <1>2, <2>1, <2>4, Zenon DEF Pass, FirstPass, Ahead, SetDesc
  <2>6. Visible'
    BY <2>1, Zenon DEF Pass, FirstPass, Visible, SetDesc
  <2>7. InHand(heads, pc["transport"], frame["transport"])'
    BY <1>2, <2>1, Zenon DEF Pass, FirstPass, InHand, Copied, Busy, SetDesc
  <2> QED
    BY <2>3, <2>5, <2>6, <2>7, Zenon DEF Pass, FirstPass
<1> QED
  BY <1>4, <1>5, Zenon DEF PassInv

(* The used entry is written to a slot the guest cannot see yet.            *)
LEMMA AddUsedStep ==
    ASSUME RxInv, AddUsed("transport")
    PROVE  PassInv'
<1> USE DEF ring, guest, avail, used, last, locals, hist
<1> DEFINE u == u_idx["transport"]
           f == frame["transport"]
<1>1. /\ heads \in Nat /\ used_idx \in Nat /\ Num \in Nat /\ Num > 0
      /\ HdrLen + f.size \in Nat
  BY RxNumbers, Zenon
<1>2. /\ pc["transport"] = "uring" /\ u \in Descs
      /\ pc' \in [Threads -> Points] /\ pc'["transport"] = "uidx"
      /\ pc'["main"] = pc["main"]
  <2>1. "uidx" \in Points /\ pc["transport"] = "uring"
    BY Zenon DEF Points, AddUsed, At
  <2>2. pc' = [pc EXCEPT !["transport"] = "uidx"]
    BY RxOrder, Zenon DEF AddUsed, At
  <2> QED
    BY <2>1, <2>2, TransportMoves, Zenon DEF RxInv, PassInv, Counts, Busy
<1>3. used_idx % Num \in Descs
  BY <1>1, SlotOf, Zenon
<1>4. /\ used_ring' \in [Descs -> [id : Descs, len : Nat]]
      /\ used_ring'[used_idx % Num] = [id |-> u, len |-> HdrLen + f.size]
      /\ \A d \in Descs : d # used_idx % Num => used_ring'[d] = used_ring[d]
  BY <1>1, <1>2, <1>3, Zenon DEF RxInv, TypeOK, AddUsed
<1>5. Counts'
  BY <1>2, Zenon DEF RxInv, PassInv, Counts, AddUsed, Busy
<1>6. ASSUME heads' <= Num PROVE Pass'
  <2>1. Pass /\ heads <= Num
    BY <1>6, Zenon DEF RxInv, PassInv, Pass, AddUsed
  <2>2. u = heads - 1 /\ used_idx = heads - 1
    BY <1>1, <1>2, <2>1 DEF Pass, FirstPass, HeadsAgree, Busy
  <2>3. used_idx % Num = heads - 1
    BY <1>1, <2>1, <2>2, SlotOf
  <2>4. \A x \in Nat : x < used_idx => used_ring'[x] = used_ring[x]
    <3> TAKE x \in Nat
    <3> HAVE x < used_idx
    <3>1. x \in Descs /\ x # used_idx % Num
      BY <1>1, <2>1, <2>2, <2>3, SMTT(60) DEF Descs
    <3> QED
      BY <1>4, <3>1, Zenon
  <2>5. HeadsAgree(heads, pc["transport"], a_idx["transport"], u_idx["transport"])'
    BY <1>2, <2>1, Zenon DEF Pass, FirstPass, HeadsAgree, Busy, AddUsed
  <2>6. Ahead(heads, pc["transport"])'
    BY <1>2, <2>1, Zenon DEF Pass, FirstPass, Ahead, AddUsed
  <2>7. Visible'
    BY <2>1, <2>4, Zenon DEF Pass, FirstPass, Visible, AddUsed
  <2>8. InHand(heads, pc["transport"], frame["transport"])'
    BY <1>2, <1>4, <2>1, <2>2, <2>3, Zenon DEF Pass, FirstPass, InHand, Copied, Busy, AddUsed
  <2> QED
    BY <2>5, <2>6, <2>7, <2>8, Zenon DEF Pass, FirstPass
<1> QED
  BY <1>5, <1>6, Zenon DEF PassInv

(* Publishing the entry makes the frame in hand a visible one.              *)
LEMMA BumpUsedStep ==
    ASSUME RxInv, BumpUsed("transport")
    PROVE  PassInv'
<1> USE DEF ring, guest, avail, used, last, locals, hist
<1> DEFINE f == frame["transport"]
           e == [id |-> f.id, len |-> HdrLen + f.size]
<1>1. heads \in Nat /\ used_idx \in Nat /\ guest_used \in Nat /\ Num \in Nat
  BY RxNumbers, Zenon
<1>2. e \in Entry
  <2>1. f.size \in Nat /\ f.id \in 0..MaxFrames
    BY RxNumbers, Zenon
  <2> HIDE DEF f
  <2> QED
    BY <2>1, RxAssumption DEF Entry
<1>3. /\ pc["transport"] = "uidx"
      /\ pc' \in [Threads -> Points] /\ pc'["transport"] = "kick"
      /\ pc'["main"] = pc["main"]
  <2>1. "kick" \in Points /\ pc["transport"] = "uidx"
    BY Zenon DEF Points, BumpUsed, At
  <2>2. pc' = [pc EXCEPT !["transport"] = "kick"]
    BY RxOrder, Zenon DEF BumpUsed, At
  <2> QED
    BY <2>1, <2>2, TransportMoves, Zenon DEF RxInv
<1>4. sent' = Append(sent, e) /\ used_idx' = used_idx + 1
  BY Zenon DEF BumpUsed
<1> HIDE DEF e
<1>5. /\ sent' \in Seq(Entry) /\ Len(sent') = used_idx + 1
      /\ sent'[used_idx + 1] = e
      /\ \A k \in 1..used_idx : sent'[k] = sent[k]
  <2>1. sent \in Seq(Entry) /\ Len(sent) = used_idx
    BY Zenon DEF RxInv, PassInv, TypeOK, Counts
  <2> QED
    BY <1>1, <1>2, <1>4, <2>1, SMT
<1>6. Counts'
  BY <1>1, <1>3, <1>4, <1>5 DEF RxInv, PassInv, Counts, BumpUsed, Busy
<1>7. ASSUME heads' <= Num PROVE Pass'
  <2>1. Pass /\ heads <= Num
    BY <1>7, Zenon DEF RxInv, PassInv, Pass, BumpUsed
  <2>2. used_idx = heads - 1
    BY <1>1, <1>3, <2>1 DEF Pass, FirstPass, HeadsAgree, Busy
  <2>3. buf[used_idx] = e.id /\ used_ring[used_idx] = [id |-> used_idx, len |-> e.len]
    BY <1>3, <2>1, <2>2, Zenon DEF Pass, FirstPass, InHand, Copied, Busy, e
  <2>4. HeadsAgree(heads, pc["transport"], a_idx["transport"], u_idx["transport"])'
    BY <1>1, <1>3, <1>4, <2>1, <2>2 DEF Pass, FirstPass, HeadsAgree, Busy, BumpUsed
  <2>5. Ahead(heads, pc["transport"])'
    BY <1>3, <2>1, Zenon DEF Pass, FirstPass, Ahead, BumpUsed
  <2>6. ASSUME NEW x \in Nat, guest_used <= x, x < used_idx + 1
        PROVE  /\ used_ring[x] = [id |-> x, len |-> sent'[x + 1].len]
               /\ buf[x] = sent'[x + 1].id
    <3>1. CASE x = used_idx
      BY <1>5, <2>3, <3>1, Zenon
    <3>2. CASE x < used_idx
      <4>1. sent'[x + 1] = sent[x + 1]
        BY <1>1, <1>5, <3>2, SMTT(60)
      <4> QED
        BY <2>1, <2>6, <3>2, <4>1, Zenon DEF Pass, FirstPass, Visible
    <3> QED
      BY <1>1, <2>6, <3>1, <3>2
  <2>7. \A k \in 1..guest_used : got[k] = sent'[k]
    BY <1>1, <1>5, <2>1, SMTT(60) DEF Pass, FirstPass, Visible, RxInv, PassInv, Counts
  <2>8. Visible'
    BY <1>4, <2>1, <2>6, <2>7, ZenonT(60) DEF Pass, FirstPass, Visible, BumpUsed
  <2>9. InHand(heads, pc["transport"], frame["transport"])'
    BY <1>3, Zenon DEF InHand, Copied, Busy
  <2> QED
    BY <2>4, <2>5, <2>8, <2>9, Zenon DEF Pass, FirstPass
<1> QED
  BY <1>6, <1>7, Zenon DEF PassInv

(* The interrupt handler of the guest writes nothing the server reads.      *)
LEMMA PollSteps ==
    ASSUME RxInv, GuestInterrupt \/ GuestIdle
    PROVE  PassInv'
<1> USE DEF ring, guest, avail, used, last, locals, hist, server
<1>1. UNCHANGED <<desc, buf, avail, used, guest_used, got, spare, server, hist>>
  BY Zenon DEF GuestInterrupt, GuestIdle
<1>2. Counts'
  BY <1>1, ZenonT(60) DEF RxInv, PassInv, Counts
<1>3. heads' <= Num => Pass'
  BY <1>1, Zenon DEF RxInv, PassInv, Pass, FirstPass, HeadsAgree, Ahead, Visible, InHand
<1> QED
  BY <1>2, <1>3, Zenon DEF PassInv

(* The guest takes the frame that was put at its place in the order.        *)
LEMMA TakeStep ==
    ASSUME RxInv, GuestTake
    PROVE  PassInv'
<1> USE DEF ring, guest, avail, used, last, locals, hist, server
<1> DEFINE r == used_ring[guest_used % Num]
           g == [id |-> buf[r.id], len |-> r.len]
<1>1. /\ heads \in Nat /\ used_idx \in Nat /\ guest_used \in Nat
      /\ Num \in Nat /\ Num > 0 /\ guest_used < used_idx
  <2>1. heads \in Nat /\ used_idx \in Nat /\ guest_used \in Nat /\ Num \in Nat /\ Num > 0
    BY RxNumbers, Zenon
  <2>2. guest_used <= used_idx /\ guest_used # used_idx
    BY Zenon DEF RxInv, PassInv, Counts, GuestTake
  <2> QED
    BY <2>1, <2>2, SMTT(60)
<1>2. guest_used % Num \in Descs
  BY <1>1, SlotOf, Zenon
<1>3. r.id \in Descs /\ r.len \in Nat /\ g \in Entry
  BY <1>2, Zenon DEF RxInv, TypeOK, Entry
<1>4. /\ got' = Append(got, g) /\ guest_used' = guest_used + 1
      /\ spare' = spare \cup {r.id}
      /\ UNCHANGED <<ring, napi, server, hist>>
  BY Zenon DEF GuestTake
<1> HIDE DEF g
<1>5. /\ got' \in Seq(Entry) /\ Len(got') = guest_used + 1
      /\ got'[guest_used + 1] = g
      /\ \A k \in 1..guest_used : got'[k] = got[k]
  <2>1. got \in Seq(Entry) /\ Len(got) = guest_used
    BY Zenon DEF RxInv, PassInv, TypeOK, Counts
  <2> HIDE DEF r
  <2> QED
    BY <1>1, <1>3, <1>4, <2>1, SMTT(60)
<1>6. Counts'
  <2>1. guest_used + 1 <= used_idx
    BY <1>1, SMT
  <2>2. UNCHANGED <<pc, sent, used_idx, a_idx, u_idx>>
    BY <1>4, Zenon
  <2> QED
    BY <1>4, <1>5, <2>1, <2>2, Zenon DEF RxInv, PassInv, Counts
<1>7. ASSUME heads' <= Num PROVE Pass'
  <2>1. Pass /\ heads <= Num
    BY <1>4, <1>7, Zenon DEF RxInv, PassInv
  <2>2. used_idx <= heads /\ guest_used < Num
    BY <1>1, <2>1, SMTT(60) DEF Pass, FirstPass, HeadsAgree
  <2>3. /\ r = [id |-> guest_used, len |-> sent[guest_used + 1].len]
        /\ buf[guest_used] = sent[guest_used + 1].id
    <3>1. Visible
      BY <2>1, Zenon DEF Pass, FirstPass
    <3>2. guest_used % Num = guest_used
      BY <1>1, <2>2, SlotOf, Zenon
    <3>3. /\ used_ring[guest_used] = [id |-> guest_used, len |-> sent[guest_used + 1].len]
          /\ buf[guest_used] = sent[guest_used + 1].id
      BY <1>1, <3>1 DEF Visible
    <3> QED
      BY <3>2, <3>3, Zenon
  <2>4. g = sent[guest_used + 1]
    <3>1. sent[guest_used + 1] \in Entry
      BY <1>1, SMTT(60) DEF RxInv, PassInv, TypeOK, Counts
    <3>2. g = [id |-> sent[guest_used + 1].id, len |-> sent[guest_used + 1].len]
      BY <2>3 DEF g
    <3> QED
      BY <3>1, <3>2, Zenon DEF Entry
  <2>5. HeadsAgree(heads, pc["transport"], a_idx["transport"], u_idx["transport"])'
    BY <1>4, <2>1, Zenon DEF Pass, FirstPass, HeadsAgree
  <2>6. Ahead(heads, pc["transport"])'
    BY <1>4, <2>1, Zenon DEF Pass, FirstPass, Ahead
  <2>7. \A k \in 1..(guest_used + 1) : got'[k] = sent[k]
    BY <1>1, <1>5, <2>1, <2>4, SMTT(60) DEF Pass, FirstPass, Visible
  <2>8. \A d \in spare' : d < guest_used + 1
    <3>1. \A d \in spare : d \in Nat /\ d < guest_used
      <4>1. spare \subseteq Descs /\ Visible
        BY <2>1, Zenon DEF Pass, FirstPass, RxInv, TypeOK
      <4> QED
        BY <4>1, SMT DEF Visible, Descs
    <3>2. spare' = spare \cup {guest_used}
      <4> HIDE DEF r
      <4> QED
        BY <1>4, <2>3, Zenon
    <3> QED
      BY <1>1, <3>1, <3>2, SMTT(60)
  <2>9. \A x \in Nat : guest_used + 1 <= x /\ x < used_idx =>
          /\ used_ring[x] = [id |-> x, len |-> sent[x + 1].len]
          /\ buf[x] = sent[x + 1].id
    BY <1>1, <2>1, SMTT(60) DEF Pass, FirstPass, Visible
  <2>10. Visible'
    BY <1>4, <2>7, <2>8, <2>9, Zenon DEF Visible
  <2>11. InHand(heads, pc["transport"], frame["transport"])'
    BY <1>4, <2>1, Zenon DEF Pass, FirstPass, InHand
  <2> QED
    BY <2>5, <2>6, <2>10, <2>11, Zenon DEF Pass, FirstPass
<1> QED
  BY <1>6, <1>7, Zenon DEF PassInv

(* A buffer that is posted again is behind the heads.                       *)
LEMMA PostStep ==
    ASSUME RxInv, NEW d \in Descs, NEW n \in Descs, GuestPost(d, n)
    PROVE  PassInv'
<1> USE DEF ring, guest, avail, used, last, locals, hist, server
<1>1. /\ heads \in Nat /\ used_idx \in Nat /\ guest_used \in Nat
      /\ Num \in Nat /\ Num > 0 /\ guest_used <= used_idx /\ avail_idx \in Nat
  BY RxNumbers, Zenon
<1>2. /\ desc' \in [Descs -> [len : Nat, next : Heads]]
      /\ \A x \in Descs : x # d => desc'[x] = desc[x]
  BY RxAssumption, Zenon DEF RxInv, TypeOK, GuestPost, Heads
<1>3. Counts'
  BY Zenon DEF RxInv, PassInv, Counts, GuestPost
<1>4. ASSUME heads' <= Num PROVE Pass'
  <2>1. Pass
    BY <1>4, ZenonT(60) DEF RxInv, PassInv, Pass, GuestPost
  <2>2. d \in Nat /\ d < guest_used
    <3>1. Visible /\ d \in spare
      BY <2>1, Zenon DEF Pass, FirstPass, GuestPost
    <3> QED
      BY <3>1, SMT DEF Visible, Descs
  <2>3. HeadsAgree(heads, pc["transport"], a_idx["transport"], u_idx["transport"])
    BY <2>1, ZenonT(60) DEF Pass, FirstPass
  <2>4. /\ guest_used <= heads
        /\ pc["transport"] = "uhead" => guest_used <= heads - 1 /\ heads - 1 \in Descs
    BY <1>1, <1>4, <2>3 DEF HeadsAgree, Busy, GuestPost, Descs
  <2>5. Ahead(heads, pc["transport"])'
    <3>1. \A x \in Descs : x >= heads => desc'[x] = desc[x]
      BY <1>1, <1>2, <2>2, <2>4 DEF Descs
    <3>2. pc["transport"] = "uhead" => desc'[heads - 1] = desc[heads - 1]
      BY <1>1, <1>2, <2>2, <2>4
    <3>3. open \subseteq open'
      BY Zenon DEF GuestPost
    <3> QED
      BY <2>1, <3>1, <3>2, <3>3, Zenon DEF Pass, FirstPass, Ahead, GuestPost
  <2>6. HeadsAgree(heads, pc["transport"], a_idx["transport"], u_idx["transport"])'
    BY <2>3, Zenon DEF HeadsAgree, GuestPost
  <2>7. Visible'
    BY <2>1, ZenonT(60) DEF Pass, FirstPass, Visible, GuestPost
  <2>8. InHand(heads, pc["transport"], frame["transport"])'
    BY <2>1, Zenon DEF Pass, FirstPass, InHand, GuestPost
  <2> QED
    BY <2>5, <2>6, <2>7, <2>8, Zenon DEF Pass, FirstPass
<1> QED
  BY <1>3, <1>4, Zenon DEF PassInv

-----------------------------------------------------------------------------
(* Every step keeps the invariant of the transport thread until the main     *)
(* thread begins a put.                                                     *)
LEMMA NextRx ==
    ASSUME RxInv, [Next]_vars, Idle("main")'
    PROVE  PassInv'
<1>1. CASE UNCHANGED vars
  <2> USE DEF vars, ring, guest, avail, used, last, locals, hist, server
  <2>1. Counts'
    BY <1>1, ZenonT(60) DEF RxInv, PassInv, Counts
  <2>2. heads' <= Num => Pass'
    BY <1>1, ZenonT(60) DEF RxInv, PassInv, Pass, FirstPass, HeadsAgree, Ahead, Visible, InHand
  <2> QED
    BY <2>1, <2>2, Zenon DEF PassInv
<1>2. ASSUME PutStep("main") PROVE FALSE
  <2>1. pc["main"] = "idle"
    BY Zenon DEF RxInv, PassInv, Counts
  <2> QED
    BY <1>2, <2>1, IdleThread, Zenon DEF Threads
<1>3. ASSUME NEW n \in Sizes, PutStart("main", n) PROVE FALSE
  BY <1>3, StartNumbers, Zenon DEF RxInv, Threads
<1>4. CASE PutStep("transport")
  BY <1>4, WildStep, QuietSteps, HeadSteps, CopyStep, DescStep, AddUsedStep, BumpUsedStep, Zenon
     DEF PutStep
<1>5. CASE \E n \in Sizes : PutStart("transport", n)
  BY <1>5, StartStep, Zenon
<1>6. CASE GuestInterrupt \/ GuestTake \/ GuestIdle
  BY <1>6, PollSteps, TakeStep, Zenon
<1>7. CASE \E d, n \in Descs : GuestPost(d, n)
  BY <1>7, PostStep, Zenon
<1> QED
  BY <1>1, <1>2, <1>3, <1>4, <1>5, <1>6, <1>7, Zenon DEF Next, Threads

-----------------------------------------------------------------------------
(* The echo alone: while the transport thread has put nothing, the used ring *)
(* stays empty, and put_vring goes through the descriptors in order.        *)

EchoPass(h, p, a) ==
    /\ last_avail_idx = Wrap(h)
    /\ p \in {"check", "head"} => a = Wrap(h)
    /\ p \in Busy => a = h - 1
    /\ \A d \in Descs : d >= h => desc[d].next = Wrap(d + 1) /\ d \in open
    /\ p = "copy" => h - 1 \in open

EchoInv ==
    /\ pc["transport"] = "idle"
    /\ used_idx = 0 /\ guest_used = 0 /\ spare = {}
    /\ heads <= Num => EchoPass(heads, pc["main"], a_idx["main"])

(* At the beginning the table is the driver's free list.                    *)
LEMMA InitEcho == Init => EchoInv
<1> SUFFICES ASSUME Init PROVE EchoInv
  OBVIOUS
<1>1. /\ pc["main"] = "idle" /\ pc["transport"] = "idle"
      /\ heads = 0 /\ used_idx = 0 /\ guest_used = 0 /\ spare = {} /\ last_avail_idx = 0
      /\ open = Descs /\ Num \in Nat /\ Num > 0
  BY RxAssumption DEF Init, Threads
<1>2. \A d \in Descs : desc[d].next = Wrap(d + 1)
  <2> TAKE d \in Descs
  <2>1. d \in Nat /\ d < Num
    BY <1>1 DEF Descs
  <2>2. (d + 1) % Num = Wrap(d + 1)
    BY <2>1, SlotOf, Zenon
  <2> QED
    BY <2>2, Zenon DEF Init
<1>3. last_avail_idx = Wrap(0)
  BY <1>1 DEF Wrap
<1> QED
  BY <1>1, <1>2, <1>3, SMTT(60) DEF EchoInv, EchoPass, Busy

(* The steps of put_vring that leave the table and the head alone.          *)
LEMMA EchoQuiet ==
    ASSUME BaseInv, EchoInv, NEW q \in Points, pc' = [pc EXCEPT !["main"] = q],
           UNCHANGED <<used_idx, guest_used, spare, heads, last_avail_idx, desc, open>>,
           a_idx'["main"] = a_idx["main"],
           q = "head" => pc["main"] = "check",
           q \in Busy => pc["main"] \in Busy,
           q \notin {"check", "copy"}
    PROVE  EchoInv'
<1>1. pc'["main"] = q /\ pc'["transport"] = pc["transport"]
  BY PcMoves, Zenon DEF BaseInv, Threads
<1>2. ASSUME heads' <= Num PROVE EchoPass(heads, pc["main"], a_idx["main"])'
  <2>1. EchoPass(heads, pc["main"], a_idx["main"])
    BY <1>2, Zenon DEF EchoInv
  <2> QED
    BY <1>1, <2>1, Zenon DEF EchoPass
<1> QED
  BY <1>1, <1>2, Zenon DEF EchoInv

(* The echo of a frame begins at the head.                                  *)
LEMMA EchoStart ==
    ASSUME BaseInv, EchoInv, NEW n \in Sizes, PutStart("main", n)
    PROVE  EchoInv'
<1> USE DEF ring, guest, used, last
<1>1. pc'["main"] = "check" /\ pc'["transport"] = pc["transport"]
  <2>1. "check" \in Points /\ pc' = [pc EXCEPT !["main"] = "check"]
    BY Zenon DEF Points, PutStart
  <2> QED
    BY <2>1, PcMoves, Zenon DEF BaseInv, Threads
<1>2. /\ a_idx'["main"] = last_avail_idx
      /\ UNCHANGED <<used_idx, guest_used, spare, heads, last_avail_idx, desc, open>>
  BY Zenon DEF PutStart, BaseInv, TypeOK, Threads
<1>3. ASSUME heads' <= Num PROVE EchoPass(heads, pc["main"], a_idx["main"])'
  <2>1. EchoPass(heads, pc["main"], a_idx["main"])
    BY <1>2, <1>3, Zenon DEF EchoInv
  <2> QED
    BY <1>1, <1>2, <2>1, Zenon DEF EchoPass, Busy
<1> QED
  BY <1>1, <1>2, <1>3, Zenon DEF EchoInv

(* The head moves to the descriptor after the one put_vring has read.       *)
LEMMA EchoHead ==
    ASSUME BaseInv, EchoInv, MoveHead("main")
    PROVE  EchoInv'
<1> USE DEF ring, guest, used, last, locals
<1>1. /\ pc["main"] = "head" /\ pc'["main"] = "copy" /\ pc'["transport"] = pc["transport"]
  <2>1. Then("main", "head") = "copy" /\ "copy" \in Points
    BY PutOrder DEF Points, Threads
  <2>2. pc["main"] = "head" /\ pc' = [pc EXCEPT !["main"] = "copy"]
    BY <2>1, Zenon DEF MoveHead, At
  <2> QED
    BY <2>1, <2>2, PcMoves, Zenon DEF BaseInv, Threads
<1>2. /\ last_avail_idx' = desc[a_idx["main"]].next /\ heads' = heads + 1
      /\ UNCHANGED <<used_idx, guest_used, spare, a_idx, desc, open>>
  BY Zenon DEF MoveHead
<1>3. heads \in Nat /\ Num \in Nat /\ Num > 0
  BY BaseNumbers, Zenon DEF BaseInv, Threads
<1>4. ASSUME heads' <= Num PROVE EchoPass(heads, pc["main"], a_idx["main"])'
  <2>1. heads <= Num /\ heads \in Descs /\ heads' - 1 = heads /\ Wrap(heads) = heads
    BY <1>2, <1>3, <1>4 DEF Descs, Wrap
  <2>2. EchoPass(heads, pc["main"], a_idx["main"])
    BY <2>1, Zenon DEF EchoInv
  <2>3. a_idx["main"] = heads
    BY <1>1, <2>1, <2>2, Zenon DEF EchoPass
  <2>4. desc[heads].next = Wrap(heads + 1) /\ heads \in open
    BY <1>3, <2>1, <2>2 DEF EchoPass
  <2>5. \A d \in Descs : d >= heads' => d >= heads
    BY <1>2, <1>3 DEF Descs
  <2>6. \A d \in Descs : d >= heads' => desc[d].next = Wrap(d + 1) /\ d \in open
    BY <2>2, <2>5, Zenon DEF EchoPass
  <2> QED
    BY <1>1, <1>2, <2>1, <2>3, <2>4, <2>6, Zenon DEF EchoPass
<1> QED
  BY <1>1, <1>2, <1>4, Zenon DEF EchoInv

(* put_vring fills and closes the descriptor behind the head.               *)
LEMMA EchoWrite ==
    ASSUME BaseInv, EchoInv, CopyFrame("main") \/ SetDesc("main")
    PROVE  EchoInv'
<1> USE DEF ring, guest, used, last, locals, hist
<1>1. /\ pc["main"] \in Busy /\ pc'["main"] \in {"desc", "aslot"}
      /\ pc'["transport"] = pc["transport"]
  <2>1. \E q \in {"desc", "aslot"} : pc' = [pc EXCEPT !["main"] = q]
    BY PutOrder DEF CopyFrame, SetDesc, At, Threads
  <2>2. pc["main"] \in Busy /\ "desc" \in Points /\ "aslot" \in Points
    BY Zenon DEF CopyFrame, SetDesc, At, Busy, Points
  <2> QED
    BY <2>1, <2>2, PcMoves, Zenon DEF BaseInv, Threads
<1>2. /\ UNCHANGED <<used_idx, guest_used, spare, a_idx, heads, last_avail_idx>>
      /\ \A d \in Descs : d # a_idx["main"] => desc'[d] = desc[d] /\ (d \in open => d \in open')
  BY Zenon DEF CopyFrame, SetDesc, BaseInv, TypeOK
<1>3. ASSUME heads' <= Num PROVE EchoPass(heads, pc["main"], a_idx["main"])'
  <2>1. EchoPass(heads, pc["main"], a_idx["main"])
    BY <1>2, <1>3, Zenon DEF EchoInv
  <2>2. a_idx["main"] = heads - 1
    BY <1>1, <2>1, Zenon DEF EchoPass
  <2>3. \A d \in Descs : d >= heads => d # a_idx["main"]
    <3>1. heads \in Nat
      BY BaseNumbers, Zenon DEF BaseInv, Threads
    <3> QED
      BY <2>2, <3>1 DEF Descs
  <2>4. pc'["main"] \notin {"check", "head", "copy"}
    BY <1>1
  <2> QED
    BY <1>2, <2>1, <2>2, <2>3, <2>4, Zenon DEF EchoPass
<1> QED
  BY <1>1, <1>2, <1>3, Zenon DEF EchoInv

(* While the transport thread puts nothing, the guest has nothing to take.  *)
LEMMA EchoGuest ==
    ASSUME EchoInv,
           \/ GuestInterrupt \/ GuestIdle \/ GuestTake
           \/ \E d, n \in Descs : GuestPost(d, n)
    PROVE  EchoInv'
<1> USE DEF avail, used, last, locals, hist, server
<1>1. ~GuestTake /\ ~\E d, n \in Descs : GuestPost(d, n)
  BY Zenon DEF EchoInv, GuestTake, GuestPost
<1>2. UNCHANGED <<desc, used, guest_used, spare, server, hist>>
  BY <1>1, Zenon DEF GuestInterrupt, GuestIdle, ring
<1> QED
  BY <1>2, Zenon DEF EchoInv, EchoPass

(* Every step keeps the invariant of the echo until the transport thread    *)
(* begins a put.                                                            *)
LEMMA NextEcho ==
    ASSUME BaseInv, EchoInv, [Next]_vars, Idle("transport")'
    PROVE  EchoInv'
<1> USE DEF ring, guest, avail, used, last, locals, hist
<1>1. CASE UNCHANGED vars
  BY <1>1, Zenon DEF EchoInv, EchoPass, vars, server
<1>2. ASSUME PutStep("transport") PROVE FALSE
  <2>1. pc["transport"] = "idle"
    BY Zenon DEF EchoInv
  <2> QED
    BY <1>2, <2>1, IdleThread, Zenon DEF Threads
<1>3. ASSUME NEW n \in Sizes, PutStart("transport", n) PROVE FALSE
  BY <1>3, StartNumbers, Zenon DEF BaseInv, Threads
<1>4. CASE \E n \in Sizes : PutStart("main", n)
  BY <1>4, EchoStart, Zenon
<1>5. CASE MoveHead("main") \/ CopyFrame("main") \/ SetDesc("main")
  BY <1>5, EchoHead, EchoWrite, ZenonT(60)
<1>6. ASSUME MoveUsedHead("main") \/ AddUsed("main") \/ BumpUsed("main") PROVE FALSE
  BY <1>6 DEF MoveUsedHead, AddUsed, BumpUsed, At, BaseInv, Located
<1>7. CASE \/ WildIndex("main") \/ PutRefused("main") \/ PutAccepted("main") \/ Kick("main")
           \/ LoadAvail("main") \/ AddAvail("main") \/ BumpAvail("main")
  <2>1. \E q \in {"undefined", "kick", "idle", "head", "aring", "aload", "aidx"} :
           /\ pc' = [pc EXCEPT !["main"] = q]
           /\ q = "head" => pc["main"] = "check"
           /\ q \in Busy => pc["main"] \in Busy
    BY <1>7, PutOrder, Zenon DEF WildIndex, PutRefused, PutAccepted, Kick, LoadAvail, AddAvail,
       BumpAvail, At, Threads, Busy
  <2>2. {"undefined", "kick", "idle", "head", "aring", "aload", "aidx"}
          \subseteq Points \ {"check", "copy"}
    BY DEF Points
  <2>3. UNCHANGED <<used_idx, guest_used, spare, heads, last_avail_idx, desc, open, a_idx>>
    BY <1>7, Zenon DEF WildIndex, PutRefused, PutAccepted, Kick, LoadAvail, AddAvail, BumpAvail
  <2> QED
    BY <2>1, <2>2, <2>3, EchoQuiet, ZenonT(60)
<1>8. CASE \/ GuestInterrupt \/ GuestIdle \/ GuestTake
           \/ \E d, n \in Descs : GuestPost(d, n)
  BY <1>8, EchoGuest, Zenon
<1> QED
  BY <1>1, <1>2, <1>3, <1>4, <1>5, <1>6, <1>7, <1>8, Zenon DEF Next, PutStep, Threads

-----------------------------------------------------------------------------
(* Both threads: each invariant holds until the other thread puts a frame.  *)
RingInv ==
    /\ BaseInv
    /\ Idle("main") => RxInv
    /\ Idle("transport") => EchoInv

(* A thread that has taken a frame number keeps having one.                 *)
LEMMA IdleBefore ==
    ASSUME TypeOK, [Next]_vars, NEW t \in Threads, Idle(t)'
    PROVE  Idle(t)
<1> USE DEF ring, guest, avail, used, last, locals, hist, server
<1>1. CASE UNCHANGED frame
  BY <1>1, Zenon DEF Idle
<1>2. ASSUME NEW s \in Threads, NEW n \in Sizes, PutStart(s, n) PROVE Idle(t)
  <2>1. s # t
    BY <1>2, StartNumbers, Zenon
  <2>2. frame'[t] = frame[t]
    BY <1>2, <2>1, Zenon DEF PutStart, TypeOK
  <2> QED
    BY <2>2, Zenon DEF Idle
<1>3. ASSUME NEW s \in Threads, PutStep(s) PROVE UNCHANGED frame
  BY <1>3, Zenon DEF PutStep, WildIndex, PutRefused, PutAccepted, MoveHead, MoveUsedHead,
     CopyFrame, SetDesc, LoadAvail, AddAvail, BumpAvail, AddUsed, BumpUsed, Kick
<1>4. ASSUME \/ GuestInterrupt \/ GuestIdle \/ GuestTake
             \/ \E d, n \in Descs : GuestPost(d, n)
      PROVE  UNCHANGED frame
  BY <1>4, Zenon DEF GuestInterrupt, GuestIdle, GuestTake, GuestPost
<1>5. UNCHANGED vars => UNCHANGED frame
  BY Zenon DEF vars
<1> QED
  BY <1>1, <1>2, <1>3, <1>4, <1>5, Zenon DEF Next

(* The invariant holds at the beginning and every step keeps it.            *)
LEMMA RingHolds == Spec => []RingInv
<1>1. Init => RingInv
  BY InitBase, InitRx, InitEcho, Zenon DEF RingInv
<1>2. RingInv /\ [Next]_vars => RingInv'
  <2> SUFFICES ASSUME RingInv, [Next]_vars PROVE RingInv'
    OBVIOUS
  <2>1. BaseInv' /\ TypeOK /\ TypeOK'
    BY NextBase, Zenon DEF RingInv, BaseInv
  <2>2. Idle("main")' => RxInv'
    BY <2>1, IdleBefore, NextRx, Zenon DEF RingInv, RxInv, Threads
  <2>3. Idle("transport")' => EchoInv'
    BY IdleBefore, NextEcho, <2>1, Zenon DEF RingInv, Threads
  <2> QED
    BY <2>1, <2>2, <2>3, Zenon DEF RingInv
<1> QED
  BY <1>1, <1>2, PTL DEF Spec

(* While nothing has been echoed, the guest receives during the first pass  *)
(* over the table the frames of put_rx_vring, in order and with their       *)
(* lengths, for every ring size and whichever threads put frames.           *)
THEOREM FirstPassDelivers == Spec => []FramesInOrder
<1>1. RingInv => FramesInOrder
  BY Zenon DEF RingInv, RxInv, PassInv, Pass, Counts, FirstPass, Visible, FramesInOrder
<1> QED
  BY RingHolds, <1>1, PTL

(* During the first pass, while only one of the two threads has put frames, *)
(* put_rx_vring and put_vring copy a frame only into a buffer the guest has *)
(* posted and that holds no other frame.                                    *)
THEOREM FirstPassPosted == Spec => []FirstPassUsesPosted
<1>1. RingInv => FirstPassUsesPosted
  <2> SUFFICES ASSUME RingInv, NEW t \in Threads, pc[t] = "copy", heads <= Num,
                      NEW s \in Threads, Idle(s)
               PROVE  a_idx[t] \in open
    BY Zenon DEF FirstPassUsesPosted
  <2>1. CASE s = "main"
    BY <2>1, Zenon DEF RingInv, RxInv, PassInv, Pass, Counts, FirstPass, HeadsAgree, Ahead, Busy, Threads
  <2>2. CASE s = "transport"
    BY <2>2, Zenon DEF RingInv, EchoInv, EchoPass, Busy, Threads
  <2> QED
    BY <2>1, <2>2, Zenon DEF Threads
<1> QED
  BY RingHolds, <1>1, PTL

-----------------------------------------------------------------------------
(* The guest's wake-up.                                                    *)

(* A used entry the guest has not taken is announced: the guest is polling, *)
(* its interrupt is pending, or the thread that published the entry has its *)
(* kick still to do.  The guest looks at the ring only when interrupted, so *)
(* that an entry without this would stay where it is until the next frame.  *)
Announced ==
    guest_used # used_idx => napi \/ callfd \/ pc["transport"] = "kick"

(* Every step keeps used entries announced.                                 *)
LEMMA AnnouncedStep ==
    ASSUME BaseInv, Announced, [Next]_vars
    PROVE  Announced'
<1> USE DEF ring, guest, avail, used, last, locals, hist, server
<1>1. CASE UNCHANGED vars
  BY <1>1, Zenon DEF Announced, vars
<1>2. ASSUME NEW t \in Threads, BumpUsed(t) PROVE Announced'
  <2>1. t = "transport" /\ Then(t, "uidx") = "kick" /\ "kick" \in Points
    BY <1>2, PutOrder, ZenonT(60) DEF BumpUsed, At, BaseInv, Located, Threads, Points
  <2>2. pc'["transport"] = "kick"
    BY <1>2, <2>1, PcMoves, Zenon DEF BumpUsed, At, BaseInv
  <2> QED
    BY <2>2, ZenonT(60) DEF Announced
<1>3. ASSUME NEW t \in Threads, Kick(t) PROVE Announced'
  BY <1>3, Zenon DEF Kick, Announced
<1>4. ASSUME NEW t \in Threads, NEW q \in Points, pc[t] # "kick",
             pc' = [pc EXCEPT ![t] = q],
             UNCHANGED <<used_idx, guest_used, napi, callfd>>
      PROVE  Announced'
  BY <1>4, PcMoves, Zenon DEF Announced, BaseInv, Threads
<1>5. ASSUME NEW t \in Threads, PutStep(t), ~BumpUsed(t), ~Kick(t) PROVE Announced'
  <2>1. /\ pc[t] # "kick" /\ UNCHANGED <<used_idx, guest_used, napi, callfd>>
        /\ \E q : pc' = [pc EXCEPT ![t] = q]
    BY <1>5, ZenonT(60) DEF PutStep, WildIndex, PutRefused, PutAccepted, MoveHead, MoveUsedHead,
       CopyFrame, SetDesc, LoadAvail, AddAvail, BumpAvail, AddUsed, At
  <2>2. PICK q : pc' = [pc EXCEPT ![t] = q]
    BY <2>1, Zenon
  <2>3. q \in Points
    <3>1. pc' \in [Threads -> Points] /\ pc \in [Threads -> Points]
      BY NextBase, Zenon DEF BaseInv, TypeOK
    <3> QED
      BY <2>2, <3>1
  <2> QED
    BY <1>4, <2>1, <2>2, <2>3, ZenonT(60)
<1>6. ASSUME NEW t \in Threads, NEW n \in Sizes, PutStart(t, n) PROVE Announced'
  <2>1. /\ pc[t] # "kick" /\ pc' = [pc EXCEPT ![t] = "check"] /\ "check" \in Points
        /\ UNCHANGED <<used_idx, guest_used, napi, callfd>>
    BY <1>6 DEF PutStart, Points
  <2> QED
    BY <1>4, <2>1, Zenon
<1>7. CASE GuestInterrupt \/ GuestIdle \/ GuestTake
  BY <1>7, Zenon DEF GuestInterrupt, GuestIdle, GuestTake, Announced
<1>8. CASE \E d, n \in Descs : GuestPost(d, n)
  <2>1. UNCHANGED <<used_idx, guest_used, napi, callfd, pc>>
    BY <1>8, Zenon DEF GuestPost
  <2> QED
    BY <2>1, Zenon DEF Announced
<1> QED
  BY <1>1, <1>2, <1>3, <1>5, <1>6, <1>7, <1>8, Zenon DEF Next

(* No frame waits in the used ring for a guest that nobody is going to      *)
(* wake: the safety part of Delivered, in every pass over the table and     *)
(* whichever threads put frames.                                            *)
THEOREM NoFrameUnannounced == Spec => []Announced
<1>1. Init => Announced
  BY DEF Init, Announced
<1>2. BaseInv /\ Announced /\ [Next]_vars => Announced'
  BY AnnouncedStep, Zenon
<1> QED
  BY InitBase, NextBase, <1>1, <1>2, PTL DEF Spec
=============================================================================
