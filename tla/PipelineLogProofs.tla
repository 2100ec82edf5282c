-------------------------- MODULE PipelineLogProofs -------------------------
(* What a flush and the metadata log rely on, for every size of the ring, of *)
(* the channels and of the log.                                              *)
(*                                                                           *)
(* FlushInv adds to the account of every op (CountInv) the order of works,   *)
(* regions and commit markers in the channels (AheadInv).  MetaInv adds to   *)
(* it the order of the ops in the stages (OrderInv: an op nearer to the      *)
(* publish stage has the older records) and what the log guards (FloorInv).  *)
EXTENDS PipelineProofs

-----------------------------------------------------------------------------
(* What flush waits for. *)

(* A work or a region is ahead of the marker of the batch that completed it. *)
AheadRegion == pb_pc \in {"publish", "handover"} => total_processed < pb_region.cut_at
AheadMessages ==
    \A i \in 1 .. Len(graph_publish) :
       graph_publish[i].kind \in {"region", "release"} =>
          total_processed + Sums(Counts(graph_publish))[i] < graph_publish[i].cut_at
AheadBuilt ==
    bd_pc = "build" /\ bd_out.kind = "work" =>
       total_processed + Total(Counts(graph_publish)) < bd_out.cut_at
AheadWorks ==
    \A i \in 1 .. Len(build_work) :
       build_work[i].kind = "work" =>
          total_processed + Total(Counts(graph_publish)) + BuildCount
            + Sums(Counts(build_work))[i] < build_work[i].cut_at
AheadWork ==
    dt_pc = "push_work" =>
       total_processed + Total(Counts(graph_publish)) + BuildCount
         + Total(Counts(build_work)) < dt_work.cut_at

(* No work, region or release is overtaken by the count of the op it was
   cut at. *)
AheadInv == AheadRegion /\ AheadMessages /\ AheadBuilt /\ AheadWorks /\ AheadWork

(* The counter stays behind every iteration on its way to the publish stage.
   First the steps of the detect stage. *)
LEMMA AheadDetect ==
    ASSUME LeastNumber PROVE CoreInv /\ SeenInv /\ AheadInv /\ Detect => AheadInv'
<1> SUFFICES ASSUME CoreInv, SeenInv, AheadInv, Detect PROVE AheadInv'
  OBVIOUS
<1>0. Shape /\ DetectorInv /\ DetectShape
  BY DEF CoreInv, Shape
<1>1. /\ seen \in Nat /\ Len(dt_batch) \in Nat /\ dt_count \in Nat /\ total_processed \in Nat
      /\ Total(Counts(build_work)) \in Nat /\ Total(Counts(graph_publish)) \in Nat
      /\ BuildCount \in Nat
  BY <1>0, CountTypes, SMTT(30)
<1> USE DEF bdVars, pbVars
<1>2. UNCHANGED <<graph_publish, bd_pc, bd_out, pb_pc, pb_region, total_processed>>
  BY DetectFrame
<1>3. UNCHANGED BuildCount
  BY <1>2 DEF BuildCount
<1>4. AheadRegion' /\ AheadMessages' /\ AheadBuilt'
  BY <1>2 DEF AheadInv, AheadRegion, AheadMessages, AheadBuilt
<1>5. ASSUME UNCHANGED build_work PROVE AheadWorks'
  BY <1>2, <1>3, <1>5, SMTT(30) DEF AheadInv, AheadWorks
<1>6. ASSUME dt_pc' # "push_work" PROVE AheadWork'
  BY <1>6 DEF AheadWork
<1>7. CASE DetectPop
  <2>1. dt_pc' # "push_work" /\ UNCHANGED build_work
    BY <1>7, DetectPopMoves
  <2> QED
    BY <1>4, <1>5, <1>6, <2>1, SMTT(30) DEF AheadInv
<1>8. CASE DetectOp
  <2>1. UNCHANGED build_work /\ dt_pc = "op"
    BY <1>8, DetectOpMoves
  <2>2. dt_pc' = "push_work" => dt_work'.cut_at = seen + 1
    BY <1>0, <1>8, DetectOpFacts, SMTT(30)
  <2>3. total_processed + Total(Counts(graph_publish)) + BuildCount + Total(Counts(build_work))
          < seen + 1
    <3>1. Len(dt_batch) <= dt_count
      BY <1>0, <2>1 DEF DetectShape
    <3> QED
      BY <1>1, <3>1, SMTT(30) DEF SeenInv
  <2>4. AheadWork'
    BY <1>2, <1>3, <2>1, <2>2, <2>3, SMTT(30) DEF AheadWork
  <2> QED
    BY <1>4, <1>5, <2>1, <2>4, SMTT(30) DEF AheadInv
<1>9. ASSUME NEW m \in Work \cup Marker, build_work' = Append(build_work, m),
             m.kind = "work" => total_processed + Total(Counts(graph_publish)) + BuildCount
                                  + Total(Counts(build_work)) < m.cut_at
      PROVE  AheadWorks'
  <2>1. /\ Len(build_work) \in Nat /\ Len(build_work') = Len(build_work) + 1
        /\ build_work'[Len(build_work) + 1] = m
        /\ \A i \in 1 .. Len(build_work) :
              /\ build_work'[i] = build_work[i]
              /\ Sums(Counts(build_work'))[i] = Sums(Counts(build_work))[i]
        /\ Sums(Counts(build_work'))[Len(build_work) + 1] = Total(Counts(build_work)) + Count(m)
    BY <1>0, <1>9, PushCounts, SMTT(30)
  <2> SUFFICES ASSUME NEW i \in 1 .. Len(build_work'), build_work'[i].kind = "work"
               PROVE  total_processed + Total(Counts(graph_publish)) + BuildCount
                        + Sums(Counts(build_work'))[i] < build_work'[i].cut_at
    BY <1>2, <1>3, SMTT(30) DEF AheadWorks
  <2>2. CASE i \in 1 .. Len(build_work)
    BY <2>1, <2>2, SMTT(30) DEF AheadInv, AheadWorks
  <2>3. CASE i = Len(build_work) + 1
    <3>1. m.kind = "work"
      BY <2>1, <2>3
    <3>2. Count(m) = 0
      BY <3>1 DEF Count
    <3>3. Sums(Counts(build_work'))[i] = Total(Counts(build_work)) /\ build_work'[i] = m
      BY <1>1, <2>1, <2>3, <3>2, SMTT(30)
    <3> QED
      BY <1>9, <3>1, <3>3, SMTT(30)
  <2> QED
    BY <2>1, <2>2, <2>3, SMTT(30)
<1>10. CASE DetectPushWork
  <2>1. /\ dt_work \in Work \cup Marker /\ dt_pc' # "push_work"
        /\ build_work' = Append(build_work, dt_work)
    BY <1>0, <1>10, DetectPushMoves DEF DetectShape
  <2>2. total_processed + Total(Counts(graph_publish)) + BuildCount + Total(Counts(build_work))
          < dt_work.cut_at
    BY <1>10, DetectPushMoves DEF AheadInv, AheadWork
  <2> QED
    BY <1>4, <1>6, <1>9, <2>1, <2>2, SMTT(30) DEF AheadInv
<1>11. CASE DetectPushCommit
  <2> DEFINE m == [kind |-> "commit", count |-> dt_count]
  <2>1. m \in Work \cup Marker /\ m.kind # "work"
    BY <1>0 DEF DetectShape, Marker
  <2>2. build_work' = Append(build_work, m) /\ dt_pc' # "push_work"
    BY <1>11, DetectPushMoves
  <2> HIDE DEF m
  <2> QED
    BY <1>4, <1>6, <1>9, <2>1, <2>2, SMTT(30) DEF AheadInv
<1>12. CASE DetectPushStop
  <2> DEFINE m == [kind |-> "stop"]
  <2>1. m \in Work \cup Marker /\ m.kind # "work"
    BY DEF Marker
  <2>2. build_work' = Append(build_work, m) /\ dt_pc' # "push_work"
    BY <1>12, DetectPushMoves
  <2> HIDE DEF m
  <2> QED
    BY <1>4, <1>6, <1>9, <2>1, <2>2, SMTT(30) DEF AheadInv
<1> QED
  BY <1>7, <1>8, <1>10, <1>11, <1>12, SMTT(30) DEF Detect

(* No work is overtaken by a count in the build stage. *)
LEMMA AheadBuild ==
    ASSUME LeastNumber PROVE CoreInv /\ AheadInv /\ Build => AheadInv'
<1> SUFFICES ASSUME CoreInv, AheadInv, Build PROVE AheadInv'
  OBVIOUS
<1>0. Shape /\ BuildShape
  BY DEF CoreInv, Shape
<1>1. /\ total_processed \in Nat /\ Total(Counts(build_work)) \in Nat
      /\ Total(Counts(graph_publish)) \in Nat /\ BuildCount \in Nat
  BY <1>0, CountTypes, SMTT(30)
<1> USE DEF dtVars, pbVars
<1>2. UNCHANGED <<dt_pc, dt_work, pb_pc, pb_region, total_processed>>
  BY BuildFrame
<1>3. AheadRegion'
  BY <1>2 DEF AheadInv, AheadRegion
<1>4. CASE BuildPop
  <2>1. UNCHANGED graph_publish
    BY <1>4, BuildMoves
  <2>2. AheadMessages'
    BY <1>2, <2>1, SMTT(30) DEF AheadInv, AheadMessages
  <2>3. PICK c \in Nat :
          /\ c = Count(build_work[1])
          /\ Total(Counts(build_work)) = c + Total(Counts(build_work'))
          /\ bd_out' = build_work[1] /\ BuildCount = 0 /\ BuildCount' = c
          /\ Len(build_work) \in Nat \ {0}
          /\ \A i \in 1 .. Len(build_work') :
                /\ build_work'[i] = build_work[i + 1] /\ i + 1 \in 1 .. Len(build_work)
                /\ Sums(Counts(build_work))[i + 1] = c + Sums(Counts(build_work'))[i]
                /\ Sums(Counts(build_work'))[i] \in Nat
          /\ Sums(Counts(build_work))[1] \in Nat
    BY <1>0, <1>4, PopCounts, SMTT(60)
  <2>4. \A i \in 1 .. Len(build_work) : build_work[i].kind = "work" =>
           /\ total_processed + Total(Counts(graph_publish)) + 0
                + Sums(Counts(build_work))[i] < build_work[i].cut_at
           /\ build_work[i].cut_at \in Nat
    <3>1. \A i \in 1 .. Len(build_work) : build_work[i].kind = "work" => build_work[i].cut_at \in Nat
      <4> TAKE i \in 1 .. Len(build_work)
      <4>1. build_work[i] \in Work \cup Marker
        BY <1>0, ElementOfSeq, SMTT(30) DEF Shape, DetectShape
      <4>2. build_work[i] \in Marker => build_work[i].kind # "work"
        BY KindFacts, SMTT(30)
      <4>3. build_work[i] \in Work => build_work[i].cut_at \in Nat
        BY SMTT(30) DEF Work
      <4> QED
        BY <4>1, <4>2, <4>3, SMTT(30)
    <3> QED
      BY <2>3, <3>1, SMTT(30) DEF AheadInv, AheadWorks
  <2>5. AheadBuilt'
    <3> SUFFICES ASSUME build_work[1].kind = "work"
                 PROVE  total_processed + Total(Counts(graph_publish)) < build_work[1].cut_at
      BY <1>2, <2>1, <2>3, SMTT(30) DEF AheadBuilt
    <3>1. 1 \in 1 .. Len(build_work)
      BY <2>3, SMTT(30)
    <3> QED
      BY <1>1, <2>3, <2>4, <3>1, SMTT(60)
  <2>6. AheadWorks'
    <3> SUFFICES ASSUME NEW i \in 1 .. Len(build_work'), build_work'[i].kind = "work"
                 PROVE  total_processed + Total(Counts(graph_publish)) + c
                          + Sums(Counts(build_work'))[i] < build_work'[i].cut_at
      BY <1>2, <2>1, <2>3, SMTT(30) DEF AheadWorks
    <3>1. PICK s \in Nat : s = Sums(Counts(build_work'))[i]
      BY <2>3, SMTT(30)
    <3>2. total_processed + Total(Counts(graph_publish)) + 0 + (c + s) < build_work'[i].cut_at
          /\ build_work'[i].cut_at \in Nat
      BY <2>3, <2>4, <3>1, Zenon
    <3>3. total_processed + Total(Counts(graph_publish)) + c + s < build_work'[i].cut_at
      BY <1>1, <3>2
    <3> QED
      BY <3>1, <3>3, SMTT(30)
  <2>7. AheadWork'
    <3>1. Total(Counts(build_work')) \in Nat
      <4>1. /\ build_work \in Seq(Work \cup Marker) /\ build_work # << >>
            /\ build_work' = Tail(build_work)
        BY <1>0, <1>4, BuildMoves, Zenon DEF Shape, DetectShape
      <4>2. build_work' \in Seq(Work \cup Marker)
        BY <4>1, TailFacts, Zenon
      <4>3. \A x \in Work \cup Marker : Count(x) \in Nat
        BY KindFacts
      <4> QED
        BY <4>2, <4>3, CountsFacts, Zenon
    <3>2. PICK w \in Nat : w = Total(Counts(build_work'))
      BY <3>1, SMTT(30)
    <3>3. ASSUME dt_pc = "push_work"
          PROVE  total_processed + Total(Counts(graph_publish)) + c + w < dt_work.cut_at
      <4>1. total_processed + Total(Counts(graph_publish)) + 0 + (c + w) < dt_work.cut_at
        BY <2>3, <3>2, <3>3, SMTT(60) DEF AheadInv, AheadWork
      <4>2. dt_work.cut_at \in Nat
        BY <1>0, <3>3, SMTT(30) DEF Shape, DetectShape, Work
      <4> QED
        BY <1>1, <4>1, <4>2, SMTT(60)
    <3> QED
      BY <1>2, <2>1, <2>3, <3>2, <3>3 DEF AheadWork
  <2> QED
    BY <1>3, <2>2, <2>5, <2>6, <2>7, SMTT(60) DEF AheadInv
<1>5. ASSUME BuildPush, AheadMessages',
             Total(Counts(graph_publish')) + BuildCount' = Total(Counts(graph_publish)) + BuildCount,
             Total(Counts(graph_publish')) \in Nat, BuildCount' \in Nat
      PROVE  AheadInv'
  <2>1. UNCHANGED build_work /\ bd_pc' # "build"
    BY <1>5, BuildMoves
  <2>2. total_processed + Total(Counts(graph_publish')) + BuildCount'
          = total_processed + Total(Counts(graph_publish)) + BuildCount
    BY <1>1, <1>5, SMTT(30)
  <2>3. AheadBuilt'
    BY <2>1, SMTT(30) DEF AheadBuilt
  <2>4. AheadWorks'
    BY <1>2, <2>1, <2>2, SMTT(30) DEF AheadWorks, AheadInv
  <2>5. AheadWork'
    BY <1>2, <2>1, <2>2, SMTT(60) DEF AheadWork, AheadInv
  <2> QED
    BY <1>3, <1>5, <2>3, <2>4, <2>5, SMTT(60) DEF AheadInv
<1>6. CASE BuildPush /\ bd_out \in Work /\ UNCHANGED graph_publish
  <2>1. BuildCount = 0 /\ BuildCount' = 0
    BY <1>6, BuildMoves, KindFacts, SMTT(60) DEF BuildCount
  <2>2. AheadMessages'
    BY <1>2, <1>6, SMTT(30) DEF AheadMessages, AheadInv
  <2> QED
    BY <1>1, <1>5, <1>6, <2>1, <2>2, SMTT(60)
<1>7. ASSUME BuildPush, NEW m, Sent(m) PROVE AheadInv'
  <2>1. /\ Total(Counts(graph_publish')) = Total(Counts(graph_publish)) + Count(m)
        /\ Count(m) \in Nat /\ BuildCount = Count(m) /\ BuildCount' = 0
        /\ Len(graph_publish) \in Nat /\ Len(graph_publish') = Len(graph_publish) + 1
        /\ graph_publish'[Len(graph_publish) + 1] = m
        /\ \A i \in 1 .. Len(graph_publish) :
              /\ graph_publish'[i] = graph_publish[i]
              /\ Sums(Counts(graph_publish'))[i] = Sums(Counts(graph_publish))[i]
        /\ Sums(Counts(graph_publish'))[Len(graph_publish) + 1]
             = Total(Counts(graph_publish)) + Count(m)
    BY <1>0, <1>7, SentCounts, Zenon
  <2>2. AheadMessages'
    <3> SUFFICES ASSUME NEW i \in 1 .. Len(graph_publish'),
                        graph_publish'[i].kind \in {"region", "release"}
                 PROVE  total_processed + Sums(Counts(graph_publish'))[i] < graph_publish'[i].cut_at
      BY <1>2, SMTT(30) DEF AheadMessages
    <3>1. CASE i \in 1 .. Len(graph_publish)
      BY <2>1, <3>1, SMTT(30) DEF AheadInv, AheadMessages
    <3>2. CASE i = Len(graph_publish) + 1
      <4>1. m.kind \in {"region", "release"} /\ graph_publish'[i] = m
        BY <2>1, <3>2, SMTT(30)
      <4>2. bd_out \in Work /\ m.cut_at = bd_out.cut_at
        BY <1>7, <4>1, KindFacts, SMTT(30) DEF Sent
      <4>3. bd_out.kind = "work" /\ bd_pc = "build"
        BY <1>7, <4>2, BuildMoves, KindFacts, SMTT(30)
      <4>4. Count(m) = 0
        BY <4>1, SMTT(30) DEF Count
      <4>5. Sums(Counts(graph_publish'))[i] = Total(Counts(graph_publish))
        BY <1>1, <2>1, <3>2, <4>4, SMTT(30)
      <4> QED
        BY <4>1, <4>2, <4>3, <4>5, SMTT(30) DEF AheadInv, AheadBuilt
    <3> QED
      BY <2>1, <3>1, <3>2, SMTT(30)
  <2>3. /\ Total(Counts(graph_publish')) + BuildCount' = Total(Counts(graph_publish)) + BuildCount
        /\ Total(Counts(graph_publish')) \in Nat /\ BuildCount' \in Nat
    BY <1>1, <2>1
  <2> QED
    BY <1>5, <1>7, <2>2, <2>3, SMTT(60)
<1> QED
  BY <1>0, <1>4, <1>6, <1>7, BuildPushFacts, SMTT(30) DEF Build

(* No region or release is overtaken by a count in the publish stage. *)
LEMMA AheadPublish ==
    ASSUME LeastNumber PROVE CoreInv /\ AheadInv /\ Publish => AheadInv'
<1> SUFFICES ASSUME CoreInv, AheadInv, Publish PROVE AheadInv'
  OBVIOUS
<1>0. Shape /\ BuildShape
  BY DEF CoreInv, Shape
<1>1. /\ total_processed \in Nat /\ Total(Counts(build_work)) \in Nat
      /\ Total(Counts(graph_publish)) \in Nat /\ BuildCount \in Nat
  BY <1>0, CountTypes
<1> USE DEF dtVars, bdVars
<1>2. UNCHANGED <<dt_pc, dt_work, build_work, bd_pc, bd_out>>
  BY PublishFrame
<1>3. UNCHANGED BuildCount
  BY <1>2 DEF BuildCount
<1>4. CASE PublishPop
  <2>1. PICK c \in Nat :
          /\ c = Count(graph_publish[1])
          /\ Total(Counts(graph_publish)) = c + Total(Counts(graph_publish'))
          /\ total_processed' = total_processed + c
          /\ Len(graph_publish) \in Nat \ {0}
          /\ \A i \in 1 .. Len(graph_publish') :
                /\ graph_publish'[i] = graph_publish[i + 1] /\ i + 1 \in 1 .. Len(graph_publish)
                /\ Sums(Counts(graph_publish))[i + 1] = c + Sums(Counts(graph_publish'))[i]
                /\ Sums(Counts(graph_publish'))[i] \in Nat
          /\ Sums(Counts(graph_publish))[1] \in Nat
    BY <1>0, <1>4, PublishCounts, SMTT(30)
  <2>2. Total(Counts(graph_publish')) \in Nat
    <3>1. /\ graph_publish' \in Seq(Region \cup Release \cup Marker)
          /\ \A x \in Region \cup Release \cup Marker : Count(x) \in Nat
      BY <1>0, <1>4, TailFacts, KindFacts, SMTT(30) DEF BuildShape, PublishPop
    <3> QED
      BY <3>1, CountsFacts, SMTT(30)
  <2>3. total_processed' + Total(Counts(graph_publish'))
          = total_processed + Total(Counts(graph_publish))
    <3>1. PICK g \in Nat : g = Total(Counts(graph_publish'))
      BY <2>2
    <3>2. total_processed + c + g = total_processed + (c + g)
      BY <1>1, SMTT(30)
    <3> QED
      BY <2>1, <3>1, <3>2, SMTT(30)
  <2>4. AheadBuilt' /\ AheadWorks' /\ AheadWork'
    BY <1>2, <1>3, <2>3, SMTT(30) DEF AheadInv, AheadBuilt, AheadWorks, AheadWork
  <2>5. \A i \in 1 .. Len(graph_publish) :
           graph_publish[i].kind \in {"region", "release"} => graph_publish[i].cut_at \in Nat
    <3> TAKE i \in 1 .. Len(graph_publish)
    <3>1. graph_publish[i] \in Region \cup Release \cup Marker
      BY <1>0, ElementOfSeq DEF BuildShape
    <3>2. graph_publish[i] \in Marker => graph_publish[i].kind \notin {"region", "release"}
      BY KindFacts
    <3>3. graph_publish[i] \in Region \cup Release => graph_publish[i].cut_at \in Nat
      BY DEF Region, Release
    <3> QED
      BY <3>1, <3>2, <3>3, SMTT(30)
  <2>6. AheadMessages'
    <3> SUFFICES ASSUME NEW i \in 1 .. Len(graph_publish'),
                        graph_publish'[i].kind \in {"region", "release"}
                 PROVE  total_processed' + Sums(Counts(graph_publish'))[i] < graph_publish'[i].cut_at
      BY DEF AheadMessages
    <3>1. PICK s \in Nat : s = Sums(Counts(graph_publish'))[i]
      BY <2>1, SMTT(30)
    <3>2. total_processed + (c + s) < graph_publish'[i].cut_at /\ graph_publish'[i].cut_at \in Nat
      BY <2>1, <2>5, <3>1, Zenon DEF AheadInv, AheadMessages
    <3>3. total_processed + c + s < graph_publish'[i].cut_at
      BY <1>1, <3>2
    <3> QED
      BY <2>1, <3>1, <3>3, SMTT(30)
  <2>7. AheadRegion'
    <3>1. PICK m : /\ m = graph_publish[1]
                   /\ PopStop(m) \/ PopCommit(m) \/ PopRelease(m) \/ PopRegion(m)
      BY <1>0, <1>4, PublishPopFacts
    <3>2. pb_pc = "pop"
      BY <1>4, SMTT(30) DEF PublishPop
    <3>3. CASE PopRegion(m)
      <4>1. m.kind = "region" /\ Count(m) = 0 /\ pb_region' = m
        BY <3>3, KindFacts, SMTT(30) DEF PopRegion
      <4>2. 1 \in 1 .. Len(graph_publish)
        BY <2>1
      <4>3. total_processed + Sums(Counts(graph_publish))[1] < m.cut_at /\ m.cut_at \in Nat
        BY <2>5, <3>1, <4>1, <4>2, SMTT(30) DEF AheadInv, AheadMessages
      <4>4. total_processed < m.cut_at
        BY <1>1, <2>1, <4>3, SMTT(30)
      <4>5. total_processed' = total_processed
        BY <3>3 DEF PopRegion
      <4> QED
        BY <4>1, <4>4, <4>5, SMTT(30) DEF AheadRegion
    <3>4. CASE PopStop(m) \/ PopCommit(m) \/ PopRelease(m)
      BY <3>2, <3>4 DEF PopStop, PopCommit, PopRelease, AheadRegion
    <3> QED
      BY <3>1, <3>3, <3>4
  <2> QED
    BY <2>4, <2>6, <2>7, SMTT(30) DEF AheadInv
<1>5. CASE PublishRelease \/ PublishHandover
  <2>1. UNCHANGED <<graph_publish, total_processed>>
    BY <1>5 DEF PublishRelease, PublishHandover
  <2>2. AheadMessages' /\ AheadBuilt' /\ AheadWorks' /\ AheadWork'
    BY <1>2, <1>3, <2>1, SMTT(30) DEF AheadInv, AheadMessages, AheadBuilt, AheadWorks, AheadWork
  <2>3. AheadRegion'
    BY <1>5, <2>1, SMTT(30) DEF PublishRelease, PublishHandover, AheadInv, AheadRegion
  <2> QED
    BY <2>2, <2>3 DEF AheadInv
<1> QED
  BY <1>4, <1>5 DEF Publish

(* Every step keeps works, regions and releases ahead of the counts. *)
LEMMA AheadStep ==
    ASSUME LeastNumber PROVE CoreInv /\ SeenInv /\ AheadInv /\ [Next]_vars => AheadInv'
<1> SUFFICES ASSUME CoreInv, SeenInv, AheadInv, [Next]_vars PROVE AheadInv'
  OBVIOUS
<1>1. ASSUME UNCHANGED <<graph_publish, build_work, dt_pc, dt_work, bd_pc, bd_out, pb_pc, pb_region,
                         total_processed>>
      PROVE  AheadInv'
  BY <1>1, SMTT(30) DEF AheadInv, AheadRegion, AheadMessages, AheadBuilt, AheadWorks, AheadWork, BuildCount
<1> USE DEF dtVars, bdVars, pbVars
<1>2. CASE Foreground
  BY <1>1, <1>2, ForegroundFrame
<1>3. CASE Drain
  BY <1>1, <1>3, DrainFrame
<1>4. CASE UNCHANGED vars
  BY <1>1, <1>4, SMTT(30) DEF vars
<1> QED
  BY <1>2, <1>3, <1>4, AheadDetect, AheadBuild, AheadPublish, SMTT(30) DEF Next

(* A message on its way is the one being published or one in the channel. *)
LEMMA MessagesAre ==
    ASSUME Shape, NEW m \in Messages
    PROVE  \/ pb_pc \in {"publish", "handover"} /\ m = pb_region /\ m \in Region
           \/ \E i \in 1 .. Len(graph_publish) :
                /\ m = graph_publish[i] /\ graph_publish[i].kind \in {"region", "release"}
                /\ m \in Region \cup Release
<1>1. m # None /\ m.kind \in {"region", "release"} /\ (m \in Range(graph_publish) \/ m = pb_region)
  BY DEF Messages
<1>2. \A x \in Region \cup Release \cup Marker :
         x.kind \in {"region", "release"} => x \in Region \cup Release
  BY KindFacts, SMTT(30)
<1>3. CASE m \in Range(graph_publish)
  <2>1. PICK i \in DOMAIN graph_publish : m = graph_publish[i]
    BY <1>3 DEF Range
  <2>2. i \in 1 .. Len(graph_publish) /\ graph_publish[i] \in Region \cup Release \cup Marker
    BY LenProperties, ElementOfSeq, SMTT(30) DEF Shape, BuildShape
  <2> QED
    BY <1>1, <1>2, <2>1, <2>2, SMTT(60)
<1>4. CASE m = pb_region
  BY <1>1, <1>4, SMTT(30) DEF Shape, BuildShape
<1> QED
  BY <1>1, <1>3, <1>4, SMTT(30)

(* With the order of works, regions and markers. *)
FlushInv == CountInv /\ AheadInv

(* The pipeline starts with nothing to overtake. *)
LEMMA FlushInit ==
    ASSUME LeastNumber PROVE Init => FlushInv
<1>1. Init => AheadInv
  BY NoCounts DEF Init, AheadInv, AheadRegion, AheadMessages, AheadBuilt, AheadWorks, AheadWork
<1> QED
  BY <1>1, CountInit DEF FlushInv

(* Every step keeps the order. *)
LEMMA FlushStep ==
    ASSUME LeastNumber PROVE FlushInv /\ [Next]_vars => FlushInv'
BY CountStep, AheadStep DEF FlushInv, CountInv

(* Where the invariant holds, the counter has not reached the op that
   completed a region still on its way. *)
LEMMA FlushedState ==
    ASSUME LeastNumber PROVE FlushInv => FlushedMeansPublished
<1> SUFFICES ASSUME FlushInv, NEW m \in Works \cup Messages PROVE total_processed < m.cut_at
  BY DEF FlushedMeansPublished
<1>0. Shape /\ DetectShape /\ BuildShape
  BY DEF FlushInv, CountInv, CoreInv, Shape
<1>1. /\ BuildCount \in Nat /\ total_processed \in Nat
      /\ Total(Counts(build_work)) \in Nat /\ Total(Counts(graph_publish)) \in Nat
  BY <1>0, CountTypes, SMTT(30)
<1>2. \A x, y \in Nat : x \in Nat => \A z \in Nat : x + y < z => x < z
  BY SMTT(30)
<1>3. CASE m \in Works
  <2>1. m \in Work
    BY <1>0, <1>3, WorksAre, SMTT(30)
  <2>2. m.cut_at \in Nat
    BY <2>1 DEF Work
  <2>3. CASE dt_pc = "push_work" /\ m = dt_work
    BY <1>1, <2>2, <2>3, SMTT(30) DEF FlushInv, AheadInv, AheadWork
  <2>4. ASSUME NEW i \in 1 .. Len(build_work), m = build_work[i], m.kind = "work"
        PROVE  total_processed < m.cut_at
    <3>1. Sums(Counts(build_work))[i] \in Nat
      <4>1. build_work \in Seq(Work \cup Marker) /\ \A x \in Work \cup Marker : Count(x) \in Nat
        BY <1>0, KindFacts, SMTT(30) DEF DetectShape
      <4>2. \A k \in 0 .. Len(build_work) : Sums(Counts(build_work))[k] \in Nat
        BY <4>1, CountsFacts, SMTT(30)
      <4>3. Len(build_work) \in Nat
        BY <4>1, LenProperties, SMTT(30)
      <4> QED
        BY <4>2, <4>3, SMTT(30)
    <3>2. total_processed + Total(Counts(graph_publish)) + BuildCount
            + Sums(Counts(build_work))[i] < m.cut_at
      BY <2>4, SMTT(30) DEF FlushInv, AheadInv, AheadWorks
    <3> QED
      BY <1>1, <2>2, <3>1, <3>2, SMTT(30)
  <2>5. CASE bd_pc = "build" /\ m = bd_out /\ bd_out.kind = "work"
    BY <1>1, <2>2, <2>5, SMTT(30) DEF FlushInv, AheadInv, AheadBuilt
  <2> QED
    BY <1>0, <1>3, <2>3, <2>4, <2>5, WorksAre, SMTT(60)
<1>4. CASE m \in Messages
  <2>1. m \in Region \cup Release
    BY <1>0, <1>4, MessagesAre, SMTT(30)
  <2>2. m.cut_at \in Nat
    BY <2>1, SMTT(30) DEF Region, Release
  <2>3. CASE pb_pc \in {"publish", "handover"} /\ m = pb_region
    BY <2>3, SMTT(30) DEF FlushInv, AheadInv, AheadRegion
  <2>4. ASSUME NEW i \in 1 .. Len(graph_publish), m = graph_publish[i],
               m.kind \in {"region", "release"}
        PROVE  total_processed < m.cut_at
    <3>1. Sums(Counts(graph_publish))[i] \in Nat
      <4>1. /\ graph_publish \in Seq(Region \cup Release \cup Marker)
            /\ \A x \in Region \cup Release \cup Marker : Count(x) \in Nat
        BY <1>0, KindFacts, SMTT(30) DEF BuildShape
      <4>2. \A k \in 0 .. Len(graph_publish) : Sums(Counts(graph_publish))[k] \in Nat
        BY <4>1, CountsFacts, SMTT(30)
      <4>3. Len(graph_publish) \in Nat
        BY <4>1, LenProperties, Zenon
      <4> QED
        BY <4>2, <4>3
    <3>2. total_processed + Sums(Counts(graph_publish))[i] < m.cut_at
      BY <2>4 DEF FlushInv, AheadInv, AheadMessages
    <3> QED
      BY <1>1, <2>2, <3>1, <3>2, SMTT(60)
  <2> QED
    BY <1>0, <1>4, <2>3, <2>4, MessagesAre, SMTT(30)
<1> QED
  BY <1>3, <1>4, SMTT(30)

-----------------------------------------------------------------------------
(* The order of the records. *)

(* The order of the records.  An op is ahead of another when its records end
   where, or before, the other's begin. *)
HasRecords(op) == op.meta_start # NoMeta
Before(a, b) == HasRecords(a) /\ HasRecords(b) => a.meta_start + a.n <= b.meta_start
Precede(A, B) == \A a \in A, b \in B : Before(a, b)

(* Precedence of sets of ops, and of the parts of a sequence in order. *)
LEMMA PrecedeSub ==
    ASSUME NEW A, NEW B, NEW C, NEW D, NEW X, Precede(A, B), Precede(A, X), C \subseteq A, D \subseteq B \cup X
    PROVE  Precede(C, D)
BY Zenon DEF Precede
InOrder(s) == \A i, j \in DOMAIN s : i < j => Before(s[i], s[j])

(* A list in order, extended by a later op, is in order. *)
LEMMA OrderAppend ==
    ASSUME NEW s \in Seq(Op), NEW e \in Op, InOrder(s), Precede(Range(s), {e})
    PROVE  InOrder(Append(s, e)) /\ Range(Append(s, e)) = Range(s) \cup {e}
<1> DEFINE t == Append(s, e)
<1>1. /\ Len(s) \in Nat /\ DOMAIN s = 1 .. Len(s) /\ DOMAIN t = 1 .. Len(s) + 1
      /\ \A i \in 1 .. Len(s) : t[i] = s[i]
      /\ t[Len(s) + 1] = e
      /\ \A i \in 1 .. Len(s) + 1 : i \in 1 .. Len(s) \/ i = Len(s) + 1
  BY AppendFacts
<1> HIDE DEF t
<1>2. ASSUME NEW i \in DOMAIN t, NEW j \in DOMAIN t, i < j PROVE Before(t[i], t[j])
  <2>1. i \in 1 .. Len(s)
    BY <1>1, <1>2
  <2>2. s[i] \in Range(s) /\ i \in DOMAIN s
    BY <1>1, <2>1 DEF Range
  <2>3. CASE j \in 1 .. Len(s)
    BY <1>1, <1>2, <2>1, <2>3, Zenon DEF InOrder
  <2>4. CASE j = Len(s) + 1
    BY <1>1, <2>1, <2>2, <2>4, Zenon DEF Precede
  <2> QED
    BY <1>1, <2>3, <2>4, SMTT(30)
<1>3. Range(t) = Range(s) \cup {e}
  <2>1. Len(s) + 1 \in DOMAIN t /\ \A i \in DOMAIN s : i \in DOMAIN t
    BY <1>1
  <2> QED
    BY <1>1, <2>1 DEF Range
<1> QED
  BY <1>2, <1>3, Zenon DEF InOrder, t

(* A part of a list in order is in order. *)
LEMMA OrderSlice ==
    ASSUME NEW s \in Seq(Op), NEW t, NEW m, Taken(s, t, m)
    PROVE  Range(t) \subseteq Range(s) /\ (InOrder(s) => InOrder(t))
<1>1. /\ t \in Seq(Op) /\ m \in Nat /\ m + Len(t) <= Len(s)
      /\ \A i \in 1 .. Len(t) : t[i] = s[m + i]
  BY DEF Taken
<1>2. Len(s) \in Nat /\ Len(t) \in Nat /\ DOMAIN s = 1 .. Len(s) /\ DOMAIN t = 1 .. Len(t)
  BY <1>1, LenProperties, SMTT(30)
<1>3. \A i \in DOMAIN t : m + i \in DOMAIN s /\ t[i] = s[m + i]
  BY <1>1, <1>2, SMTT(30)
<1>4. \A i, j \in DOMAIN t : i < j => m + i < m + j
  BY <1>1, <1>2, SMTT(30)
<1>5. Range(t) \subseteq Range(s)
  BY <1>3 DEF Range
<1>6. InOrder(s) => InOrder(t)
  BY <1>3, <1>4, Zenon DEF InOrder
<1> QED
  BY <1>5, <1>6

(* An earlier part of a list in order precedes a later part. *)
LEMMA SlicesOrder ==
    ASSUME NEW s \in Seq(Op), InOrder(s), NEW t, NEW m, NEW u, NEW l,
           Taken(s, t, m), Taken(s, u, l), l + Len(u) <= m
    PROVE  Precede(Range(u), Range(t))
<1>1. /\ t \in Seq(Op) /\ m \in Nat /\ m + Len(t) <= Len(s)
      /\ \A i \in 1 .. Len(t) : t[i] = s[m + i]
      /\ u \in Seq(Op) /\ l \in Nat /\ l + Len(u) <= Len(s)
      /\ \A i \in 1 .. Len(u) : u[i] = s[l + i]
  BY DEF Taken
<1>2. /\ Len(s) \in Nat /\ Len(t) \in Nat /\ Len(u) \in Nat
      /\ DOMAIN s = 1 .. Len(s) /\ DOMAIN t = 1 .. Len(t) /\ DOMAIN u = 1 .. Len(u)
  BY <1>1, LenProperties, SMTT(30)
<1>3. \A i \in DOMAIN t : m + i \in DOMAIN s /\ t[i] = s[m + i]
  BY <1>1, <1>2, SMTT(30)
<1>4. \A i \in DOMAIN u : l + i \in DOMAIN s /\ u[i] = s[l + i]
  BY <1>1, <1>2, SMTT(30)
<1>5. \A i \in DOMAIN u, j \in DOMAIN t : l + i < m + j
  BY <1>1, <1>2, SMTT(30)
<1> SUFFICES ASSUME NEW a \in Range(u), NEW b \in Range(t) PROVE Before(a, b)
  BY DEF Precede
<1>6. PICK i \in DOMAIN u : a = u[i]
  BY DEF Range
<1>7. PICK j \in DOMAIN t : b = t[j]
  BY DEF Range
<1> QED
  BY <1>3, <1>4, <1>5, <1>6, <1>7, Zenon DEF InOrder

(* The ops of a message: only a work has any. *)
OpsOf(w) == IF w.kind = "work" THEN Range(w.ops) ELSE {}

(* The ops that have come no further than each place of the pipeline. *)
FgOps == {fg_op} \ {None}
RingOps == FgOps \cup Range(ring)
DrainOps == RingOps \cup Range(dr_batch)
BatchOps == DrainOps \cup UNION {Range(trace_batches[i].ops) : i \in DOMAIN trace_batches}
DetectOps == BatchOps \cup Range(dt_batch)
HeldOps == DetectOps \cup Range(pending_ops)
CutOps == HeldOps \cup (IF dt_pc = "push_work" THEN OpsOf(dt_work) ELSE {})
QueueOps == CutOps \cup UNION {OpsOf(build_work[i]) : i \in DOMAIN build_work}
BuildOps == QueueOps \cup (IF bd_pc = "build" THEN OpsOf(bd_out) ELSE {})

(* What is in one place is in order, and ahead of what has come less far. *)
RingOrder == InOrder(ring) /\ Precede(Range(ring), FgOps)

(* What a step that leaves a place alone does to its order.  The step may
   take ops away, and add to what has come less far ops that all others are
   ahead of: X. *)
LEMMA KeepRing ==
    ASSUME NEW X, Precede(BuildOps, X), UNCHANGED ring, FgOps' \subseteq FgOps \cup X
    PROVE  (RingOrder => RingOrder') /\ RingOps' \subseteq RingOps \cup X
<1>1. Range(ring) \subseteq BuildOps
  BY Zenon DEF BuildOps, QueueOps, CutOps, HeldOps, DetectOps, BatchOps, DrainOps, RingOps
<1>2. RingOps' \subseteq RingOps \cup X
  BY Zenon DEF RingOps
<1>3. Precede(Range(ring), X)
  BY <1>1, Zenon DEF Precede
<1>4. ASSUME RingOrder PROVE Precede(Range(ring), FgOps')
  <2>1. Precede(Range(ring), FgOps)
    BY <1>4, SMTT(30) DEF RingOrder
  <2> QED
    BY <1>3, <2>1, PrecedeSub, SMTT(30)
<1> QED
  BY <1>2, <1>4, SMTT(30) DEF RingOrder
DrainOrder == InOrder(dr_batch) /\ Precede(Range(dr_batch), RingOps)

(* A step that leaves a place alone, and brings only ops X later than all
   others behind it, keeps its order. The batch of the drain stage. *)
LEMMA KeepDrain ==
    ASSUME NEW X, Precede(BuildOps, X), UNCHANGED dr_batch, RingOps' \subseteq RingOps \cup X
    PROVE  (DrainOrder => DrainOrder') /\ DrainOps' \subseteq DrainOps \cup X
<1>1. Range(dr_batch) \subseteq BuildOps
  BY Zenon DEF BuildOps, QueueOps, CutOps, HeldOps, DetectOps, BatchOps, DrainOps
<1>2. DrainOps' \subseteq DrainOps \cup X
  BY Zenon DEF DrainOps
<1>3. Precede(Range(dr_batch), X)
  BY <1>1, Zenon DEF Precede
<1>4. ASSUME DrainOrder PROVE Precede(Range(dr_batch), RingOps')
  <2>1. Precede(Range(dr_batch), RingOps)
    BY <1>4 DEF DrainOrder
  <2> QED
    BY <1>3, <2>1, PrecedeSub
<1> QED
  BY <1>2, <1>4 DEF DrainOrder
DetectOrder == InOrder(dt_batch) /\ Precede(Range(dt_batch), BatchOps)

(* The batch of the detect stage. *)
LEMMA KeepDetect ==
    ASSUME NEW X, Precede(BuildOps, X), UNCHANGED dt_batch, BatchOps' \subseteq BatchOps \cup X
    PROVE  (DetectOrder => DetectOrder') /\ DetectOps' \subseteq DetectOps \cup X
<1>1. Range(dt_batch) \subseteq BuildOps
  BY Zenon DEF BuildOps, QueueOps, CutOps, HeldOps, DetectOps
<1>2. DetectOps' \subseteq DetectOps \cup X
  BY Zenon DEF DetectOps
<1>3. Precede(Range(dt_batch), X)
  BY <1>1, Zenon DEF Precede
<1>4. ASSUME DetectOrder PROVE Precede(Range(dt_batch), BatchOps')
  <2>1. Precede(Range(dt_batch), BatchOps)
    BY <1>4 DEF DetectOrder
  <2> QED
    BY <1>3, <2>1, PrecedeSub
<1> QED
  BY <1>2, <1>4 DEF DetectOrder
HeldOrder == InOrder(pending_ops) /\ Precede(Range(pending_ops), DetectOps)

(* The ops held. *)
LEMMA KeepHeld ==
    ASSUME NEW X, Precede(BuildOps, X), UNCHANGED pending_ops, DetectOps' \subseteq DetectOps \cup X
    PROVE  (HeldOrder => HeldOrder') /\ HeldOps' \subseteq HeldOps \cup X
<1>1. Range(pending_ops) \subseteq BuildOps
  BY Zenon DEF BuildOps, QueueOps, CutOps, HeldOps
<1>2. HeldOps' \subseteq HeldOps \cup X
  BY Zenon DEF HeldOps
<1>3. Precede(Range(pending_ops), X)
  BY <1>1, Zenon DEF Precede
<1>4. ASSUME HeldOrder PROVE Precede(Range(pending_ops), DetectOps')
  <2>1. Precede(Range(pending_ops), DetectOps)
    BY <1>4 DEF HeldOrder
  <2> QED
    BY <1>3, <2>1, PrecedeSub
<1> QED
  BY <1>2, <1>4 DEF HeldOrder
CutOrder == dt_pc = "push_work" => Precede(OpsOf(dt_work), HeldOps)

(* The work being pushed. *)
LEMMA KeepCut ==
    ASSUME NEW X, Precede(BuildOps, X), UNCHANGED <<dt_pc, dt_work>>, HeldOps' \subseteq HeldOps \cup X
    PROVE  (CutOrder => CutOrder') /\ CutOps' \subseteq CutOps \cup X
<1>1. dt_pc = "push_work" => OpsOf(dt_work) \subseteq BuildOps
  BY Zenon DEF BuildOps, QueueOps, CutOps
<1>2. CutOps' \subseteq CutOps \cup X
  BY DEF CutOps
<1>3. dt_pc = "push_work" => Precede(OpsOf(dt_work), X)
  BY <1>1, Zenon DEF Precede
<1>4. ASSUME CutOrder, dt_pc = "push_work" PROVE Precede(OpsOf(dt_work), HeldOps')
  <2>1. Precede(OpsOf(dt_work), HeldOps)
    BY <1>4 DEF CutOrder
  <2> QED
    BY <1>3, <1>4, <2>1, PrecedeSub, SMTT(30)
<1> QED
  BY <1>2, <1>4, SMTT(30) DEF CutOrder
QueueOrder ==
    \A i \in DOMAIN build_work :
       /\ Precede(OpsOf(build_work[i]), CutOps)
       /\ \A j \in DOMAIN build_work :
             i < j => Precede(OpsOf(build_work[i]), OpsOf(build_work[j]))

(* The works in their channel. *)
LEMMA KeepQueue ==
    ASSUME NEW X, Precede(BuildOps, X), UNCHANGED build_work, CutOps' \subseteq CutOps \cup X
    PROVE  (QueueOrder => QueueOrder') /\ QueueOps' \subseteq QueueOps \cup X
<1> DEFINE B == UNION {OpsOf(build_work[i]) : i \in DOMAIN build_work}
<1>1. B \subseteq BuildOps
  BY Zenon DEF BuildOps, QueueOps
<1>2. QueueOps' \subseteq QueueOps \cup X
  BY DEF QueueOps
<1>3. ASSUME NEW i \in DOMAIN build_work PROVE Precede(OpsOf(build_work[i]), X)
  <2>1. OpsOf(build_work[i]) \subseteq BuildOps
    BY <1>1
  <2> QED
    BY <2>1, Zenon DEF Precede
<1>4. ASSUME QueueOrder, NEW i \in DOMAIN build_work
      PROVE  Precede(OpsOf(build_work[i]), CutOps')
  <2>1. Precede(OpsOf(build_work[i]), CutOps)
    BY <1>4 DEF QueueOrder
  <2> QED
    BY <1>3, <2>1, PrecedeSub, SMTT(30)
<1> QED
  BY <1>2, <1>4, SMTT(30) DEF QueueOrder
BuiltOrder == bd_pc = "build" => Precede(OpsOf(bd_out), QueueOps)

(* The work being built. *)
LEMMA KeepBuilt ==
    ASSUME NEW X, Precede(BuildOps, X), UNCHANGED bdVars, QueueOps' \subseteq QueueOps \cup X
    PROVE  (BuiltOrder => BuiltOrder') /\ BuildOps' \subseteq BuildOps \cup X
<1>0. UNCHANGED <<bd_pc, bd_out>>
  BY DEF bdVars
<1>1. bd_pc = "build" => OpsOf(bd_out) \subseteq BuildOps
  BY Zenon DEF BuildOps
<1>2. BuildOps' \subseteq BuildOps \cup X
  BY <1>0 DEF BuildOps
<1>3. bd_pc = "build" => Precede(OpsOf(bd_out), X)
  BY <1>1, Zenon DEF Precede
<1>4. ASSUME BuiltOrder, bd_pc = "build" PROVE Precede(OpsOf(bd_out), QueueOps')
  <2>1. Precede(OpsOf(bd_out), QueueOps)
    BY <1>4 DEF BuiltOrder
  <2> QED
    BY <1>3, <1>4, <2>1, PrecedeSub, SMTT(30)
<1> QED
  BY <1>0, <1>2, <1>4, SMTT(30) DEF BuiltOrder
BatchOrder ==
    \A i \in DOMAIN trace_batches :
       /\ InOrder(trace_batches[i].ops) /\ Precede(Range(trace_batches[i].ops), DrainOps)
       /\ \A j \in DOMAIN trace_batches :
             i < j => Precede(Range(trace_batches[i].ops), Range(trace_batches[j].ops))

(* The ops lie in the pipeline in the order of their records. *)
OrderInv ==
    /\ RingOrder /\ DrainOrder /\ BatchOrder /\ DetectOrder
    /\ HeldOrder /\ CutOrder /\ QueueOrder /\ BuiltOrder

(* Everything from the work being pushed on. *)
LEMMA KeepFromCut ==
    ASSUME OrderInv, NEW X, Precede(BuildOps, X), UNCHANGED <<dt_pc, dt_work, build_work, bdVars>>,
           HeldOps' \subseteq HeldOps \cup X
    PROVE  CutOrder' /\ QueueOrder' /\ BuiltOrder' /\ BuildOps' \subseteq BuildOps \cup X
<1>1. CutOrder' /\ CutOps' \subseteq CutOps \cup X
  BY KeepCut DEF OrderInv
<1>2. QueueOrder' /\ QueueOps' \subseteq QueueOps \cup X
  BY <1>1, KeepQueue DEF OrderInv
<1>3. BuiltOrder' /\ BuildOps' \subseteq BuildOps \cup X
  BY <1>2, KeepBuilt, SMTT(30) DEF OrderInv
<1> QED
  BY <1>1, <1>2, <1>3, SMTT(30)

(* The batches in their channel. *)
LEMMA KeepBatches ==
    ASSUME NEW X, Precede(BuildOps, X), UNCHANGED trace_batches, DrainOps' \subseteq DrainOps \cup X
    PROVE  (BatchOrder => BatchOrder') /\ BatchOps' \subseteq BatchOps \cup X
<1> DEFINE B == UNION {Range(trace_batches[i].ops) : i \in DOMAIN trace_batches}
<1>1. B \subseteq BuildOps
  BY Zenon DEF BuildOps, QueueOps, CutOps, HeldOps, DetectOps, BatchOps
<1>2. BatchOps' \subseteq BatchOps \cup X
  BY DEF BatchOps
<1>3. ASSUME NEW i \in DOMAIN trace_batches PROVE Precede(Range(trace_batches[i].ops), X)
  <2>1. Range(trace_batches[i].ops) \subseteq BuildOps
    BY <1>1
  <2> QED
    BY <2>1, Zenon DEF Precede
<1>4. ASSUME BatchOrder, NEW i \in DOMAIN trace_batches
      PROVE  Precede(Range(trace_batches[i].ops), DrainOps')
  <2>1. Precede(Range(trace_batches[i].ops), DrainOps)
    BY <1>4, SMTT(30) DEF BatchOrder
  <2> QED
    BY <1>3, <2>1, PrecedeSub, SMTT(30)
<1> QED
  BY <1>2, <1>4, SMTT(30) DEF BatchOrder

(* The same from a place to the end of the build stage. *)
OrderKept(X) == OrderInv' /\ BuildOps' \subseteq BuildOps \cup X

(* Everything from the batches on. *)
LEMMA KeepFromBatches ==
    ASSUME OrderInv, NEW X, Precede(BuildOps, X), UNCHANGED <<trace_batches, dtVars, build_work, bdVars>>,
           DrainOps' \subseteq DrainOps \cup X, RingOrder', DrainOrder'
    PROVE  OrderKept(X)
<1>0. UNCHANGED <<trace_batches, dt_batch, pending_ops, dt_pc, dt_work, build_work, bdVars>>
  BY DEF dtVars, detectorVars
<1>1. BatchOrder' /\ BatchOps' \subseteq BatchOps \cup X
  BY <1>0, KeepBatches, SMTT(30) DEF OrderInv
<1>2. DetectOrder' /\ DetectOps' \subseteq DetectOps \cup X
  BY <1>0, <1>1, KeepDetect, SMTT(30) DEF OrderInv
<1>3. HeldOrder' /\ HeldOps' \subseteq HeldOps \cup X
  BY <1>0, <1>2, KeepHeld, SMTT(30) DEF OrderInv
<1>4. CutOrder' /\ QueueOrder' /\ BuiltOrder' /\ BuildOps' \subseteq BuildOps \cup X
  BY <1>0, <1>3, KeepFromCut, SMTT(30)
<1> QED
  BY <1>1, <1>2, <1>3, <1>4, SMTT(30) DEF OrderInv, OrderKept

(* A step of the foreground that brings the ops X, later than all others. *)
LEMMA KeepAll ==
    ASSUME OrderInv, NEW X, Precede(BuildOps, X), FgOps' \subseteq FgOps \cup X,
           UNCHANGED <<ring, drVars, trace_batches, dtVars, build_work, bdVars>>
    PROVE  OrderKept(X)
<1>1. RingOrder' /\ RingOps' \subseteq RingOps \cup X
  BY KeepRing DEF OrderInv
<1>2. DrainOrder' /\ DrainOps' \subseteq DrainOps \cup X
  BY <1>1, KeepDrain, SMTT(30) DEF OrderInv, drVars
<1> QED
  BY <1>1, <1>2, KeepFromBatches, SMTT(30)

(* The empty set precedes and follows everything. *)
LEMMA NothingLater == \A A : Precede(A, {}) /\ Precede({}, A)
BY DEF Precede

(* The tail is at or before every record upstream, each release on its way
   is past the tail, past the releases ahead of it and at or before every
   record upstream, and nothing is past the head. *)
Releases(m) == m.kind \in {"region", "release"} /\ m.meta_end > 0
Released(end) ==
    /\ mtail < end /\ end <= mhead
    /\ \A op \in BuildOps : HasRecords(op) => end <= op.meta_start

(* The log is never over-full; the records of every op on its way lie
   between its counters; the releases to come are past the tail, not past
   the records of an op on its way, and in order. *)
LogBounds == mtail <= mhead /\ mhead - mtail <= METAS
RecordBounds ==
    \A op \in BuildOps : HasRecords(op) =>
        op.n > 0 /\ mtail <= op.meta_start /\ op.meta_start + op.n <= mhead
MessageBounds ==
    \A i \in DOMAIN graph_publish : Releases(graph_publish[i]) =>
        /\ Released(graph_publish[i].meta_end)
        /\ \A j \in DOMAIN graph_publish :
              i < j /\ Releases(graph_publish[j])
                => graph_publish[i].meta_end < graph_publish[j].meta_end
RegionBounds ==
    pb_pc = "publish" /\ Releases(pb_region) =>
        /\ Released(pb_region.meta_end)
        /\ \A j \in DOMAIN graph_publish :
              Releases(graph_publish[j]) => pb_region.meta_end < graph_publish[j].meta_end

(* What the metadata log guards. *)
FloorInv == LogBounds /\ RecordBounds /\ MessageBounds /\ RegionBounds

(* An op is recorded: all the records upstream end before its own. *)
LEMMA AppendMetaOrder ==
    ASSUME OrderInv, FloorInv, NEW n \in Tensors, AppendMeta(n)
    PROVE  OrderKept({fg_op'})
<1>1. Precede(BuildOps, {fg_op'})
  <2> SUFFICES ASSUME NEW a \in BuildOps, HasRecords(a), HasRecords(fg_op')
               PROVE  a.meta_start + a.n <= fg_op'.meta_start
    BY DEF Precede, Before
  <2>1. fg_op'.meta_start = mhead
    BY DEF AppendMeta, HasRecords
  <2>2. a.meta_start + a.n <= mhead
    BY DEF FloorInv, RecordBounds
  <2> QED
    BY <2>1, <2>2, SMTT(30)
<1>2. FgOps' \subseteq FgOps \cup {fg_op'}
  BY DEF FgOps
<1>3. UNCHANGED <<ring, drVars, trace_batches, dtVars, build_work, bdVars>>
  BY DEF AppendMeta
<1> QED
  BY <1>1, <1>2, <1>3, KeepAll, SMTT(30)

(* The op moves from the foreground to the end of the ring. *)
LEMMA AppendRingOrder == ASSUME Shape, OrderInv, AppendRing PROVE OrderKept({})
<1>0. UNCHANGED <<drVars, trace_batches, dtVars, build_work, bdVars>> /\ FgOps' = {}
  BY DEF AppendRing, FgOps
<1>1. CASE Len(ring) < RING
  <2>1. ring \in Seq(Op) /\ fg_op \in Op /\ ring' = Append(ring, fg_op) /\ fg_op \in FgOps
    BY <1>1, SMTT(30) DEF Shape, ForegroundShape, AppendRing, FgOps
  <2>2. Precede(Range(ring), {fg_op}) /\ InOrder(ring)
    BY <2>1, Zenon DEF OrderInv, RingOrder, Precede
  <2>3. InOrder(ring') /\ Range(ring') = Range(ring) \cup {fg_op}
    BY <2>1, <2>2, OrderAppend, SMTT(30)
  <2>4. RingOrder'
    BY <1>0, <2>3, NothingLater, SMTT(30) DEF RingOrder
  <2>5. RingOps' \subseteq RingOps \cup {}
    BY <1>0, <2>1, <2>3, SMTT(30) DEF RingOps
  <2>6. DrainOrder' /\ DrainOps' \subseteq DrainOps \cup {}
    BY <1>0, <2>5, KeepDrain, NothingLater, SMTT(60) DEF OrderInv, drVars
  <2> QED
    BY <1>0, <2>4, <2>6, KeepFromBatches, NothingLater, Zenon
<1>2. CASE ~(Len(ring) < RING)
  <2>1. UNCHANGED ring
    BY <1>2, SMTT(30) DEF AppendRing
  <2> QED
    BY <1>0, <2>1, KeepAll, NothingLater, SMTT(30)
<1> QED
  BY <1>1, <1>2, SMTT(30)

(* Ops move from the front of the ring to the batch. *)
LEMMA DrainPopOrder == ASSUME Shape, OrderInv, DrainPop PROVE OrderKept({})
<1>0. /\ UNCHANGED <<trace_batches, dtVars, build_work, bdVars>> /\ FgOps' = FgOps
      /\ ring \in Seq(Op) /\ dr_batch = << >> /\ PopBatch
  BY DEF DrainPop, FgOps, fgVars, Shape, ForegroundShape, DrainShape
<1>1. PICK n \in Nat :
             /\ n <= Len(ring)
             /\ dr_batch' \in Seq(Op) /\ Len(dr_batch') = n
             /\ \A i \in 1 .. n : dr_batch'[i] = ring[i]
             /\ ring' \in Seq(Op) /\ Len(ring') = Len(ring) - n
             /\ \A i \in 1 .. Len(ring) - n : ring'[i] = ring[n + i]
  BY <1>0, PopBatchFacts, Zenon
<1>2. Len(ring) \in Nat
  BY <1>0, LenProperties, SMTT(30)
<1>3. Taken(ring, dr_batch', 0)
  <2>1. 0 + n <= Len(ring) /\ \A i \in 1 .. n : 0 + i = i
    BY <1>1, <1>2, SMTT(30)
  <2> QED
    BY <1>1, <2>1, SMTT(30) DEF Taken
<1>4. Taken(ring, ring', n)
  <2>1. n + (Len(ring) - n) <= Len(ring)
    BY <1>1, <1>2, SMTT(30)
  <2> QED
    BY <1>1, <2>1, SMTT(30) DEF Taken
<1>5. InOrder(ring) /\ Precede(Range(ring), FgOps)
  BY DEF OrderInv, RingOrder
<1>6. /\ Range(dr_batch') \subseteq Range(ring) /\ InOrder(dr_batch')
      /\ Range(ring') \subseteq Range(ring) /\ InOrder(ring')
  BY <1>0, <1>3, <1>4, <1>5, OrderSlice, SMTT(60)
<1>7. Precede(Range(dr_batch'), Range(ring'))
  <2>1. 0 + Len(dr_batch') <= n
    BY <1>1
  <2> QED
    BY <1>0, <1>3, <1>4, <1>5, <2>1, SlicesOrder, Zenon
<1>8. RingOrder'
  BY <1>0, <1>5, <1>6, Zenon DEF RingOrder, Precede
<1>9. DrainOrder'
  BY <1>0, <1>5, <1>6, <1>7, Zenon DEF DrainOrder, RingOps, Precede
<1>10. DrainOps' \subseteq DrainOps \cup {}
  BY <1>0, <1>6, Zenon DEF DrainOps, RingOps
<1> QED
  BY <1>0, <1>8, <1>9, <1>10, KeepFromBatches, NothingLater, SMTT(60)

(* The batch b joins the channel: it is what the drain stage held. *)
LEMMA BatchAppendOrder ==
    ASSUME Shape, OrderInv, NEW b \in Batch, trace_batches' = Append(trace_batches, b),
           dr_batch' = << >>, InOrder(b.ops), Range(b.ops) \subseteq Range(dr_batch),
           UNCHANGED <<fg_op, ring, dtVars, build_work, bdVars>>
    PROVE  OrderKept({})
<1>0. /\ FgOps' = FgOps /\ trace_batches \in Seq(Batch)
      /\ UNCHANGED <<dt_batch, pending_ops, dt_pc, dt_work>>
  BY DEF FgOps, Shape, DrainShape, dtVars, detectorVars
<1>1. RingOrder' /\ RingOps' = RingOps
  BY <1>0, SMTT(30) DEF OrderInv, RingOrder, RingOps
<1>2. DrainOps' = RingOps /\ DrainOps' \subseteq DrainOps /\ Range(dr_batch') = {}
  BY <1>1, SMTT(30) DEF DrainOps, Range
<1>3. DrainOrder'
  <2>1. InOrder(<< >>)
    BY DEF InOrder
  <2> QED
    BY <1>2, <2>1, NothingLater, Zenon DEF DrainOrder
<1>4. /\ Len(trace_batches) \in Nat /\ DOMAIN trace_batches = 1 .. Len(trace_batches)
      /\ DOMAIN trace_batches' = 1 .. Len(trace_batches) + 1
      /\ \A i \in 1 .. Len(trace_batches) : trace_batches'[i] = trace_batches[i]
      /\ trace_batches'[Len(trace_batches) + 1] = b
      /\ \A i \in 1 .. Len(trace_batches) + 1 :
            i \in 1 .. Len(trace_batches) \/ i = Len(trace_batches) + 1
  BY <1>0, AppendFacts
<1>5. Precede(Range(b.ops), DrainOps')
  BY <1>2, Zenon DEF OrderInv, DrainOrder, Precede
<1>6. \A i \in 1 .. Len(trace_batches) :
         /\ InOrder(trace_batches[i].ops) /\ Precede(Range(trace_batches[i].ops), DrainOps)
         /\ \A j \in 1 .. Len(trace_batches) :
               i < j => Precede(Range(trace_batches[i].ops), Range(trace_batches[j].ops))
  BY <1>4, Zenon DEF OrderInv, BatchOrder
<1>7. \A i \in 1 .. Len(trace_batches) : /\ Precede(Range(trace_batches[i].ops), DrainOps')
                                         /\ Precede(Range(trace_batches[i].ops), Range(b.ops))
  <2> TAKE i \in 1 .. Len(trace_batches)
  <2>1. Precede(Range(trace_batches[i].ops), DrainOps) /\ Range(b.ops) \subseteq DrainOps
    BY <1>6, Zenon DEF DrainOps
  <2> QED
    BY <1>2, <2>1, Zenon DEF Precede
<1>8. BatchOrder'
  <2> SUFFICES ASSUME NEW i \in DOMAIN trace_batches'
               PROVE  /\ InOrder(trace_batches'[i].ops)
                      /\ Precede(Range(trace_batches'[i].ops), DrainOps')
                      /\ \A j \in DOMAIN trace_batches' :
                           i < j => Precede(Range(trace_batches'[i].ops), Range(trace_batches'[j].ops))
    BY Zenon DEF BatchOrder
  <2>1. CASE i = Len(trace_batches) + 1
    <3>1. \A j \in DOMAIN trace_batches' : ~(i < j)
      BY <1>4, <2>1, SMTT(30)
    <3>2. trace_batches'[i] = b
      BY <1>4, <2>1, SMTT(30)
    <3> QED
      BY <1>5, <3>1, <3>2, Zenon
  <2>2. CASE i \in 1 .. Len(trace_batches)
    <3>1. trace_batches'[i] = trace_batches[i]
      BY <1>4, <2>2, Zenon
    <3>2. ASSUME NEW j \in DOMAIN trace_batches', i < j
          PROVE  Precede(Range(trace_batches[i].ops), Range(trace_batches'[j].ops))
      <4>1. CASE j \in 1 .. Len(trace_batches)
        BY <1>4, <1>6, <2>2, <3>2, <4>1, Zenon
      <4>2. CASE j = Len(trace_batches) + 1
        BY <1>4, <1>7, <2>2, <4>2, Zenon
      <4> QED
        BY <1>4, <4>1, <4>2, SMTT(30)
    <3> QED
      BY <1>6, <1>7, <2>2, <3>1, <3>2, Zenon
  <2> QED
    BY <1>4, <2>1, <2>2, Zenon
<1>9. BatchOps' \subseteq BatchOps \cup {}
  <2> SUFFICES ASSUME NEW x \in BatchOps' PROVE x \in BatchOps
    OBVIOUS
  <2>1. CASE x \in DrainOps'
    BY <1>2, <2>1, Zenon DEF BatchOps
  <2>2. ASSUME NEW i \in DOMAIN trace_batches', x \in Range(trace_batches'[i].ops)
        PROVE  x \in BatchOps
    <3>1. CASE i \in 1 .. Len(trace_batches)
      <4>1. x \in Range(trace_batches[i].ops) /\ i \in DOMAIN trace_batches
        BY <1>4, <2>2, <3>1, SMTT(30)
      <4> QED
        BY <4>1, Zenon DEF BatchOps
    <3>2. CASE i = Len(trace_batches) + 1
      <4>1. x \in Range(b.ops)
        BY <1>4, <2>2, <3>2, SMTT(30)
      <4> QED
        BY <4>1, Zenon DEF BatchOps, DrainOps
    <3> QED
      BY <1>4, <3>1, <3>2, SMTT(30)
  <2> QED
    BY <2>1, <2>2, SMTT(30) DEF BatchOps
<1>10. DetectOrder' /\ DetectOps' \subseteq DetectOps \cup {}
  BY <1>0, <1>9, KeepDetect, NothingLater, Zenon DEF OrderInv
<1>11. HeldOrder' /\ HeldOps' \subseteq HeldOps \cup {}
  BY <1>0, <1>10, KeepHeld, NothingLater, Zenon DEF OrderInv
<1>12. CutOrder' /\ QueueOrder' /\ BuiltOrder' /\ BuildOps' \subseteq BuildOps \cup {}
  BY <1>0, <1>11, KeepFromCut, NothingLater, Zenon
<1> QED
  BY <1>1, <1>3, <1>8, <1>10, <1>11, <1>12, Zenon DEF OrderInv, OrderKept

(* The batch moves to the end of its channel. *)
LEMMA DrainPushOrder == ASSUME Shape, OrderInv, DrainPush PROVE OrderKept({})
<1> DEFINE b == [stop |-> FALSE, ops |-> dr_batch]
<1>1. b \in Batch /\ b.ops = dr_batch
  BY DEF Shape, DrainShape, Batch
<1>2. trace_batches' = Append(trace_batches, b) /\ dr_batch' = << >>
      /\ UNCHANGED <<fg_op, ring, dtVars, build_work, bdVars>>
  BY DEF DrainPush, fgVars
<1> HIDE DEF b
<1>3. InOrder(b.ops) /\ Range(b.ops) \subseteq Range(dr_batch)
  BY <1>1, Zenon DEF OrderInv, DrainOrder
<1> QED
  BY <1>1, <1>2, <1>3, BatchAppendOrder, Zenon

(* The stop batch has no ops. *)
LEMMA DrainSentinelOrder == ASSUME Shape, OrderInv, DrainSentinel PROVE OrderKept({})
<1> DEFINE b == [stop |-> TRUE, ops |-> << >>]
<1>1. b \in Batch /\ b.ops = << >>
  BY DEF Batch
<1>2. trace_batches' = Append(trace_batches, b) /\ dr_batch' = << >>
      /\ UNCHANGED <<fg_op, ring, dtVars, build_work, bdVars>>
  BY DEF DrainSentinel, fgVars, Shape, DrainShape
<1> HIDE DEF b
<1>3. InOrder(b.ops) /\ Range(b.ops) \subseteq Range(dr_batch)
  <2>1. InOrder(<< >>) /\ Range(<< >>) = {}
    BY DEF InOrder, Range
  <2> QED
    BY <1>1, <2>1, SMTT(30)
<1> QED
  BY <1>1, <1>2, <1>3, BatchAppendOrder, Zenon

(* Everything from the works in their channel on. *)
LEMMA KeepFromQueue ==
    ASSUME OrderInv, NEW X, Precede(BuildOps, X), UNCHANGED <<build_work, bdVars>>,
           CutOps' \subseteq CutOps \cup X
    PROVE  QueueOrder' /\ BuiltOrder' /\ BuildOps' \subseteq BuildOps \cup X
<1>1. QueueOrder' /\ QueueOps' \subseteq QueueOps \cup X
  BY KeepQueue DEF OrderInv
<1>2. BuiltOrder' /\ BuildOps' \subseteq BuildOps \cup X
  BY <1>1, KeepBuilt, SMTT(30) DEF OrderInv
<1> QED
  BY <1>1, <1>2, SMTT(30)

(* A batch moves from the front of its channel to the detect stage. *)
LEMMA DetectPopOrder == ASSUME Shape, DetectorInv, OrderInv, DetectPop PROVE OrderKept({})
<1>0. /\ UNCHANGED <<fg_op, ring, dr_batch, build_work, bdVars>> /\ dt_pc = "pop" /\ dt_pc' # "push_work"
      /\ trace_batches \in Seq(Batch) /\ trace_batches # << >> /\ dt_batch = << >>
      /\ trace_batches' = Tail(trace_batches)
  BY DetectPopMoves, DetectFrame DEF Detect, fgVars, drVars, Shape, DrainShape, DetectShape
<1>1. FgOps' = FgOps /\ RingOps' = RingOps /\ DrainOps' = DrainOps
  BY <1>0 DEF FgOps, RingOps, DrainOps
<1>2. RingOrder' /\ DrainOrder'
  BY <1>0, <1>1 DEF OrderInv, RingOrder, DrainOrder
<1>3. /\ Len(trace_batches) \in Nat \ {0} /\ DOMAIN trace_batches = 1 .. Len(trace_batches)
      /\ 1 \in DOMAIN trace_batches /\ Head(trace_batches) = trace_batches[1]
      /\ DOMAIN trace_batches' = 1 .. Len(trace_batches) - 1
      /\ \A i \in 1 .. Len(trace_batches) - 1 : /\ trace_batches'[i] = trace_batches[i + 1]
                                                /\ i + 1 \in DOMAIN trace_batches
  BY <1>0, TailFacts
<1>4. dt_batch' = trace_batches[1].ops
  <2>1. CASE Head(trace_batches).stop
    <3>1. trace_batches[1].ops = << >>
      BY <1>3, <2>1, Zenon DEF Shape, DrainShape
    <3>2. UNCHANGED dt_batch
      BY <2>1, DetectPopMoves
    <3> QED
      BY <1>0, <3>1, <3>2, SMTT(30)
  <2>2. CASE ~Head(trace_batches).stop
    BY <1>3, <2>2, DetectPopMoves, Zenon
  <2> QED
    BY <2>1, <2>2, SMTT(30)
<1>5. pending_ops' = pending_ops \/ pending_ops' = << >>
  BY DetectPopMoves, AfterCheckFacts
<1>6. \A i, j \in 1 .. Len(trace_batches) - 1 : i < j => i + 1 < j + 1
  BY <1>3
<1>7. BatchOrder'
  BY <1>1, <1>3, <1>6, Zenon DEF OrderInv, BatchOrder
<1>8. BatchOps' \subseteq BatchOps
  <2> SUFFICES ASSUME NEW x \in BatchOps' PROVE x \in BatchOps
    OBVIOUS
  <2>1. CASE x \in DrainOps'
    BY <1>1, <2>1, Zenon DEF BatchOps
  <2>2. ASSUME NEW i \in DOMAIN trace_batches', x \in Range(trace_batches'[i].ops)
        PROVE  x \in BatchOps
    <3>1. x \in Range(trace_batches[i + 1].ops) /\ i + 1 \in DOMAIN trace_batches
      BY <1>3, <2>2
    <3> QED
      BY <3>1 DEF BatchOps
  <2> QED
    BY <2>1, <2>2 DEF BatchOps
<1>9. DetectOrder'
  <2>1. InOrder(dt_batch')
    BY <1>3, <1>4, SMTT(30) DEF OrderInv, BatchOrder
  <2>2. Precede(Range(dt_batch'), BatchOps')
    <3> SUFFICES ASSUME NEW a \in Range(trace_batches[1].ops), NEW x \in BatchOps' PROVE Before(a, x)
      BY <1>4 DEF Precede
    <3>1. CASE x \in DrainOps'
      BY <1>1, <1>3, <3>1, Zenon DEF OrderInv, BatchOrder, Precede
    <3>2. ASSUME NEW i \in DOMAIN trace_batches', x \in Range(trace_batches'[i].ops)
          PROVE  Before(a, x)
      <4>1. x \in Range(trace_batches[i + 1].ops) /\ i + 1 \in DOMAIN trace_batches /\ 1 < i + 1
        BY <1>3, <3>2, SMTT(30)
      <4>2. Precede(Range(trace_batches[1].ops), Range(trace_batches[i + 1].ops))
        BY <1>3, <4>1, Zenon DEF OrderInv, BatchOrder
      <4> QED
        BY <4>1, <4>2, Zenon DEF Precede
    <3> QED
      BY <3>1, <3>2, SMTT(30) DEF BatchOps
  <2> QED
    BY <2>1, <2>2, Zenon DEF DetectOrder
<1>10. DetectOps' \subseteq DetectOps
  <2>1. Range(dt_batch') \subseteq BatchOps
    BY <1>3, <1>4, SMTT(30) DEF BatchOps
  <2> QED
    BY <1>8, <2>1, Zenon DEF DetectOps
<1>11. InOrder(pending_ops') /\ Range(pending_ops') \subseteq Range(pending_ops)
  <2>1. InOrder(<< >>) /\ Range(<< >>) = {}
    BY DEF InOrder, Range
  <2> QED
    BY <1>5, <2>1, SMTT(30) DEF OrderInv, HeldOrder
<1>12. HeldOrder'
  BY <1>10, <1>11, Zenon DEF OrderInv, HeldOrder, Precede
<1>13. HeldOps' \subseteq HeldOps
  BY <1>10, <1>11, Zenon DEF HeldOps
<1>14. CutOrder' /\ CutOps' \subseteq CutOps \cup {}
  BY <1>0, <1>13, SMTT(30) DEF CutOrder, CutOps
<1>15. QueueOrder' /\ BuiltOrder' /\ BuildOps' \subseteq BuildOps \cup {}
  BY <1>0, <1>14, KeepFromQueue, NothingLater, Zenon
<1> QED
  BY <1>2, <1>7, <1>9, <1>12, <1>14, <1>15, Zenon DEF OrderInv, OrderKept

(* An op moves from the batch to the end of those held, and a work is cut
   from the front of them. *)
LEMMA DetectOpOrder == ASSUME Shape, DetectorInv, OrderInv, DetectOp PROVE OrderKept({})
(* A sequence without its first op. *)
<1>TailTaken.
    ASSUME NEW s \in Seq(Op), s # << >>
    PROVE  /\ Taken(s, Tail(s), 1) /\ Head(s) \in Op /\ Head(s) \in Range(s)
           /\ InOrder(s) => Precede({Head(s)}, Range(Tail(s)))
  <2> USE <1>TailTaken
  <2>1. /\ Len(s) \in Nat \ {0} /\ DOMAIN s = 1 .. Len(s) /\ 1 \in DOMAIN s
        /\ Head(s) = s[1] /\ Head(s) \in Op
        /\ Tail(s) \in Seq(Op) /\ Len(Tail(s)) = Len(s) - 1
        /\ DOMAIN Tail(s) = 1 .. Len(s) - 1
        /\ \A i \in 1 .. Len(s) - 1 : Tail(s)[i] = s[i + 1] /\ i + 1 \in DOMAIN s
    BY TailFacts, SMTT(30)
  <2>2. Taken(s, Tail(s), 1)
    <3>1. \A i \in 1 .. Len(s) - 1 : i + 1 = 1 + i
      BY <2>1
    <3>2. 1 + Len(Tail(s)) <= Len(s)
      BY <2>1
    <3> QED
      BY <2>1, <3>1, <3>2, SMTT(30) DEF Taken
  <2>3. ASSUME InOrder(s), NEW b \in Range(Tail(s)) PROVE Before(Head(s), b)
    <3>1. PICK i \in DOMAIN Tail(s) : b = Tail(s)[i]
      BY DEF Range
    <3>2. i + 1 \in DOMAIN s /\ b = s[i + 1] /\ 1 < i + 1
      BY <2>1, <3>1, SMTT(30)
    <3> QED
      BY <2>1, <2>3, <3>2, Zenon DEF InOrder
  <2>4. Head(s) \in Range(s)
    BY <2>1, Zenon DEF Range
  <2> QED
    BY <2>1, <2>2, <2>3, <2>4, Zenon DEF Precede
<1>0. /\ UNCHANGED <<fg_op, ring, dr_batch, trace_batches, build_work, bdVars>> /\ dt_pc = "op"
      /\ dt_batch \in Seq(Op) /\ dt_batch # << >> /\ dt_batch' = Tail(dt_batch)
  BY DetectOpMoves, DetectFrame DEF Detect, fgVars, drVars, Shape, DetectShape
<1>1. FgOps' = FgOps /\ RingOps' = RingOps /\ DrainOps' = DrainOps /\ BatchOps' = BatchOps
  BY <1>0, Zenon DEF FgOps, RingOps, DrainOps, BatchOps
<1>2. RingOrder' /\ DrainOrder' /\ BatchOrder'
  BY <1>0, <1>1, SMTT(30) DEF OrderInv, RingOrder, DrainOrder, BatchOrder
<1> DEFINE e == Head(dt_batch)
<1>3. /\ Taken(dt_batch, dt_batch', 1) /\ e \in Op /\ e \in Range(dt_batch)
      /\ Precede({e}, Range(dt_batch'))
  BY <1>0, <1>TailTaken, SMTT(30) DEF OrderInv, DetectOrder
<1> HIDE DEF e
<1>4. Range(dt_batch') \subseteq Range(dt_batch) /\ InOrder(dt_batch')
  BY <1>0, <1>3, OrderSlice, SMTT(30) DEF OrderInv, DetectOrder
<1>5. DetectOrder'
  BY <1>1, <1>4, Zenon DEF OrderInv, DetectOrder, Precede
<1>6. DetectOps' \subseteq DetectOps
  BY <1>1, <1>4, Zenon DEF DetectOps
<1>7. PICK held \in Seq(Op), m \in Nat :
             /\ held = Append(AfterCheck.held, e)
             /\ Taken(held, pending_ops', m)
             /\ \/ dt_pc' = "op" /\ dt_work' = None
                \/ /\ dt_pc' = "push_work" /\ dt_work' \in Work
                   /\ \E l \in Nat : /\ Taken(held, dt_work'.ops, l)
                                     /\ l + Len(dt_work'.ops) <= m
  BY DetectOpFacts, Zenon DEF e
<1>8. /\ AfterCheck.held \in Seq(Op)
      /\ AfterCheck.held = << >> \/ AfterCheck.held = pending_ops
  BY AfterCheckFacts, Zenon
<1>9. InOrder(AfterCheck.held) /\ Range(AfterCheck.held) \subseteq Range(pending_ops)
  <2>1. InOrder(<< >>) /\ Range(<< >>) = {}
    BY DEF InOrder, Range
  <2> QED
    BY <1>8, <2>1, SMTT(30) DEF OrderInv, HeldOrder
<1>10. Precede(Range(AfterCheck.held), DetectOps)
  BY <1>9, Zenon DEF OrderInv, HeldOrder, Precede
<1>11. InOrder(held) /\ Range(held) = Range(AfterCheck.held) \cup {e}
  <2>1. e \in DetectOps
    BY <1>3, Zenon DEF DetectOps
  <2>2. Precede(Range(AfterCheck.held), {e})
    BY <1>10, <2>1, Zenon DEF Precede
  <2> QED
    BY <1>3, <1>7, <1>8, <1>9, <2>2, OrderAppend, SMTT(30)
<1>12. Precede(Range(held), DetectOps')
  <2>1. Precede({e}, DetectOps')
    <3>1. Precede({e}, BatchOps)
      BY <1>3, Zenon DEF OrderInv, DetectOrder, Precede
    <3> QED
      BY <1>1, <1>3, <3>1, Zenon DEF DetectOps, Precede
  <2> QED
    BY <1>6, <1>10, <1>11, <2>1, Zenon DEF Precede
<1>13. Range(held) \subseteq HeldOps
  BY <1>3, <1>9, <1>11, Zenon DEF HeldOps, DetectOps
<1>14. Range(pending_ops') \subseteq Range(held) /\ InOrder(pending_ops')
  BY <1>7, <1>11, OrderSlice, Zenon
<1>15. HeldOrder'
  BY <1>12, <1>14, Zenon DEF HeldOrder, Precede
<1>16. HeldOps' \subseteq HeldOps
  BY <1>6, <1>13, <1>14, Zenon DEF HeldOps
<1>17. ASSUME dt_pc' = "push_work"
       PROVE  Precede(OpsOf(dt_work'), HeldOps') /\ OpsOf(dt_work') \subseteq HeldOps
  <2>1. PICK l \in Nat : Taken(held, dt_work'.ops, l) /\ l + Len(dt_work'.ops) <= m
    BY <1>7, <1>17, SMTT(30)
  <2>2. OpsOf(dt_work') = Range(dt_work'.ops)
    BY <1>7, <1>17, KindFacts, SMTT(30) DEF OpsOf
  <2>3. Range(dt_work'.ops) \subseteq Range(held)
    BY <2>1, OrderSlice, SMTT(30)
  <2>4. Precede(Range(dt_work'.ops), Range(pending_ops'))
    BY <1>7, <1>11, <2>1, SlicesOrder, Zenon
  <2>5. Precede(Range(dt_work'.ops), HeldOps')
    BY <1>12, <2>3, <2>4, Zenon DEF HeldOps, Precede
  <2> QED
    BY <1>13, <2>2, <2>3, <2>5, Zenon
<1>18. CutOrder' /\ CutOps' \subseteq CutOps \cup {}
  BY <1>16, <1>17 DEF CutOrder, CutOps
<1>19. QueueOrder' /\ BuiltOrder' /\ BuildOps' \subseteq BuildOps \cup {}
  BY <1>0, <1>18, KeepFromQueue, NothingLater, Zenon
<1> QED
  BY <1>2, <1>5, <1>15, <1>18, <1>19, SMTT(60) DEF OrderInv, OrderKept

(* A work moves to the end of its channel; markers have no ops. *)
LEMMA DetectPushOrder ==
    ASSUME Shape, OrderInv, DetectPushWork \/ DetectPushCommit \/ DetectPushStop
    PROVE  OrderKept({})
(* A work or a marker joins the channel to the build stage. *)
<1>QueueAppendOrder.
    ASSUME Shape, OrderInv, NEW w \in Work \cup Marker, build_work' = Append(build_work, w),
           dt_pc' # "push_work", Precede(OpsOf(w), HeldOps), OpsOf(w) \subseteq CutOps,
           UNCHANGED <<fg_op, ring, dr_batch, trace_batches, dt_batch, pending_ops, bdVars>>
    PROVE  OrderKept({})
  <2> USE <1>QueueAppendOrder
  <2>0. /\ FgOps' = FgOps /\ RingOps' = RingOps /\ DrainOps' = DrainOps /\ BatchOps' = BatchOps
        /\ DetectOps' = DetectOps /\ HeldOps' = HeldOps
    <3>1. FgOps' = FgOps /\ RingOps' = RingOps /\ DrainOps' = DrainOps
      BY SMTT(30) DEF FgOps, RingOps, DrainOps
    <3>2. BatchOps' = BatchOps
      BY <3>1, Zenon DEF BatchOps
    <3> QED
      BY <3>1, <3>2, Zenon DEF DetectOps, HeldOps
  <2>1. RingOrder' /\ DrainOrder' /\ BatchOrder' /\ DetectOrder' /\ HeldOrder'
    BY <2>0, SMTT(30) DEF OrderInv, RingOrder, DrainOrder, BatchOrder, DetectOrder, HeldOrder
  <2>2. CutOrder' /\ CutOps' = HeldOps /\ HeldOps \subseteq CutOps
    BY <2>0, Zenon DEF CutOrder, CutOps
  <2>3. /\ Len(build_work) \in Nat /\ DOMAIN build_work = 1 .. Len(build_work)
        /\ DOMAIN build_work' = 1 .. Len(build_work) + 1
        /\ \A i \in 1 .. Len(build_work) : build_work'[i] = build_work[i]
        /\ build_work'[Len(build_work) + 1] = w
        /\ \A i \in 1 .. Len(build_work) + 1 : i \in 1 .. Len(build_work) \/ i = Len(build_work) + 1
    BY WorkAppended, Zenon DEF Shape, DetectShape
  <2>4. \A i \in 1 .. Len(build_work) :
           /\ Precede(OpsOf(build_work[i]), CutOps)
           /\ \A j \in 1 .. Len(build_work) :
                 i < j => Precede(OpsOf(build_work[i]), OpsOf(build_work[j]))
    BY <2>3, Zenon DEF OrderInv, QueueOrder
  <2>5. \A i \in 1 .. Len(build_work) : /\ Precede(OpsOf(build_work[i]), CutOps')
                                        /\ Precede(OpsOf(build_work[i]), OpsOf(w))
    BY <2>2, <2>4, Zenon DEF Precede
  <2>6. QueueOrder'
    <3> SUFFICES ASSUME NEW i \in DOMAIN build_work'
                 PROVE  /\ Precede(OpsOf(build_work'[i]), CutOps')
                        /\ \A j \in DOMAIN build_work' :
                              i < j => Precede(OpsOf(build_work'[i]), OpsOf(build_work'[j]))
      BY SMTT(30) DEF QueueOrder
    <3>1. CASE i = Len(build_work) + 1
      <4>0. Len(build_work) \in Nat /\ DOMAIN build_work' = 1 .. Len(build_work) + 1
        BY <2>3, Zenon
      <4>1. \A j \in DOMAIN build_work' : ~(i < j)
        BY <3>1, <4>0, SMTT(30)
      <4>2. build_work'[i] = w
        BY <2>3, <3>1, SMTT(30)
      <4> QED
        BY <2>2, <4>1, <4>2, Zenon
    <3>2. CASE i \in 1 .. Len(build_work)
      <4>1. build_work'[i] = build_work[i]
        BY <2>3, <3>2, Zenon
      <4>2. ASSUME NEW j \in DOMAIN build_work', i < j
            PROVE  Precede(OpsOf(build_work[i]), OpsOf(build_work'[j]))
        <5>1. CASE j \in 1 .. Len(build_work)
          BY <2>3, <2>4, <3>2, <4>2, <5>1, Zenon
        <5>2. CASE j = Len(build_work) + 1
          BY <2>3, <2>5, <3>2, <5>2, Zenon
        <5> QED
          BY <2>3, <5>1, <5>2, SMTT(30)
      <4> QED
        BY <2>5, <3>2, <4>1, <4>2, Zenon
    <3> QED
      BY <2>3, <3>1, <3>2, Zenon
  <2>7. QueueOps' \subseteq QueueOps \cup {}
    <3> SUFFICES ASSUME NEW x \in QueueOps' PROVE x \in QueueOps
      OBVIOUS
    <3>1. CASE x \in CutOps'
      BY <2>2, <3>1, Zenon DEF QueueOps
    <3>2. ASSUME NEW i \in DOMAIN build_work', x \in OpsOf(build_work'[i]) PROVE x \in QueueOps
      <4>1. CASE i \in 1 .. Len(build_work)
        <5>1. x \in OpsOf(build_work[i]) /\ i \in DOMAIN build_work
          BY <2>3, <3>2, <4>1, SMTT(30)
        <5> QED
          BY <5>1, Zenon DEF QueueOps
      <4>2. CASE i = Len(build_work) + 1
        <5>1. x \in OpsOf(w)
          BY <2>3, <3>2, <4>2, SMTT(30)
        <5> QED
          BY <5>1, Zenon DEF QueueOps
      <4> QED
        BY <2>3, <4>1, <4>2, Zenon
    <3> QED
      BY <3>1, <3>2, SMTT(30) DEF QueueOps
  <2>8. BuiltOrder' /\ BuildOps' \subseteq BuildOps \cup {}
    BY <2>7, KeepBuilt, NothingLater, Zenon DEF OrderInv
  <2> QED
    BY <2>1, <2>2, <2>6, <2>8, Zenon DEF OrderInv, OrderKept
<1>0. UNCHANGED <<fg_op, ring, dr_batch, trace_batches, dt_batch, pending_ops, bdVars>>
      /\ dt_pc' # "push_work"
  BY DEF DetectPushWork, DetectPushCommit, DetectPushStop, fgVars, drVars, detectorVars
<1>1. CASE DetectPushWork
  <2>1. /\ dt_work \in Work \cup Marker /\ build_work' = Append(build_work, dt_work)
        /\ dt_pc = "push_work"
    BY <1>1, SMTT(30) DEF DetectPushWork, Shape, DetectShape
  <2>2. Precede(OpsOf(dt_work), HeldOps) /\ OpsOf(dt_work) \subseteq CutOps
    BY <2>1, SMTT(30) DEF OrderInv, CutOrder, CutOps
  <2> QED
    BY <1>0, <2>1, <2>2, <1>QueueAppendOrder, Zenon
<1>2. CASE DetectPushCommit
  <2> DEFINE m == [kind |-> "commit", count |-> dt_count]
  <2>1. m \in Work \cup Marker /\ OpsOf(m) = {}
    BY Zenon DEF Shape, DetectShape, Marker, OpsOf
  <2>2. build_work' = Append(build_work, m)
    BY <1>2, SMTT(30) DEF DetectPushCommit
  <2> HIDE DEF m
  <2>3. Precede(OpsOf(m), HeldOps) /\ OpsOf(m) \subseteq CutOps
    BY <2>1, NothingLater, SMTT(30)
  <2> QED
    BY <1>0, <2>1, <2>2, <2>3, <1>QueueAppendOrder, Zenon
<1>3. CASE DetectPushStop
  <2> DEFINE m == [kind |-> "stop"]
  <2>1. m \in Work \cup Marker /\ OpsOf(m) = {}
    BY Zenon DEF Marker, OpsOf
  <2>2. build_work' = Append(build_work, m)
    BY <1>3 DEF DetectPushStop
  <2> HIDE DEF m
  <2>3. Precede(OpsOf(m), HeldOps) /\ OpsOf(m) \subseteq CutOps
    BY <2>1, NothingLater, SMTT(30)
  <2> QED
    BY <1>0, <2>1, <2>2, <2>3, <1>QueueAppendOrder, Zenon
<1> QED
  BY <1>1, <1>2, <1>3

(* A work moves from the front of its channel to the build stage. *)
LEMMA BuildPopOrder == ASSUME Shape, OrderInv, BuildPop PROVE OrderKept({})
<1>0. /\ UNCHANGED <<fg_op, ring, dr_batch, trace_batches, dt_batch, pending_ops, dt_pc, dt_work>>
      /\ build_work \in Seq(Work \cup Marker) /\ build_work # << >>
      /\ build_work' = Tail(build_work) /\ bd_out' = Head(build_work) /\ bd_pc' = "build"
  BY BuildMoves, BuildFrame, Zenon DEF Build, fgVars, drVars, dtVars, detectorVars, Shape, DetectShape
<1>1. /\ FgOps' = FgOps /\ RingOps' = RingOps /\ DrainOps' = DrainOps /\ BatchOps' = BatchOps
      /\ DetectOps' = DetectOps /\ HeldOps' = HeldOps /\ CutOps' = CutOps
  <2>1. FgOps' = FgOps /\ RingOps' = RingOps /\ DrainOps' = DrainOps
    BY <1>0, SMTT(30) DEF FgOps, RingOps, DrainOps
  <2>2. BatchOps' = BatchOps
    BY <1>0, <2>1, Zenon DEF BatchOps
  <2> QED
    BY <1>0, <2>1, <2>2, Zenon DEF DetectOps, HeldOps, CutOps
<1>2. RingOrder' /\ DrainOrder' /\ BatchOrder' /\ DetectOrder' /\ HeldOrder' /\ CutOrder'
  BY <1>0, <1>1, Zenon DEF OrderInv, RingOrder, DrainOrder, BatchOrder, DetectOrder, HeldOrder, CutOrder
<1>3. /\ Len(build_work) \in Nat \ {0} /\ DOMAIN build_work = 1 .. Len(build_work)
      /\ 1 \in DOMAIN build_work /\ bd_out' = build_work[1]
      /\ DOMAIN build_work' = 1 .. Len(build_work) - 1
      /\ \A i \in 1 .. Len(build_work) - 1 : /\ build_work'[i] = build_work[i + 1]
                                             /\ i + 1 \in DOMAIN build_work
  BY <1>0, TailFacts, Zenon
<1>4. \A i, j \in 1 .. Len(build_work) - 1 : i < j => i + 1 < j + 1
  BY <1>3
<1>5. QueueOrder'
  BY <1>1, <1>3, <1>4, Zenon DEF OrderInv, QueueOrder
<1>6. QueueOps' \subseteq QueueOps /\ OpsOf(bd_out') \subseteq QueueOps
  <2>1. OpsOf(bd_out') \subseteq QueueOps
    BY <1>3 DEF QueueOps
  <2> SUFFICES ASSUME NEW x \in QueueOps' PROVE x \in QueueOps
    BY <2>1
  <2>2. CASE x \in CutOps'
    BY <1>1, <2>2, Zenon DEF QueueOps
  <2>3. ASSUME NEW i \in DOMAIN build_work', x \in OpsOf(build_work'[i])
        PROVE  x \in QueueOps
    <3>1. x \in OpsOf(build_work[i + 1]) /\ i + 1 \in DOMAIN build_work
      BY <1>3, <2>3, SMTT(30)
    <3> QED
      BY <3>1, Zenon DEF QueueOps
  <2> QED
    BY <2>2, <2>3, SMTT(30) DEF QueueOps
<1>7. Precede(OpsOf(bd_out'), QueueOps')
  <2> SUFFICES ASSUME NEW a \in OpsOf(build_work[1]), NEW x \in QueueOps' PROVE Before(a, x)
    BY <1>3 DEF Precede
  <2>1. CASE x \in CutOps'
    BY <1>1, <1>3, <2>1, Zenon DEF OrderInv, QueueOrder, Precede
  <2>2. ASSUME NEW i \in DOMAIN build_work', x \in OpsOf(build_work'[i])
        PROVE  Before(a, x)
    <3>1. x \in OpsOf(build_work[i + 1]) /\ i + 1 \in DOMAIN build_work /\ 1 < i + 1
      BY <1>3, <2>2, SMTT(30)
    <3>2. Precede(OpsOf(build_work[1]), OpsOf(build_work[i + 1]))
      BY <1>3, <3>1, Zenon DEF OrderInv, QueueOrder
    <3> QED
      BY <3>1, <3>2, Zenon DEF Precede
  <2> QED
    BY <2>1, <2>2, Zenon DEF QueueOps
<1>8. BuiltOrder' /\ BuildOps' \subseteq BuildOps \cup {}
  BY <1>0, <1>6, <1>7, Zenon DEF BuiltOrder, BuildOps
<1> QED
  BY <1>2, <1>5, <1>8, SMTT(30) DEF OrderInv, OrderKept

(* The ops of the work that is built leave. *)
LEMMA BuildPushOrder ==
    ASSUME OrderInv, BuildPush PROVE OrderKept({}) /\ BuildOps' = QueueOps /\ QueueOps' = QueueOps
<1>0. /\ UNCHANGED <<fg_op, ring, dr_batch, trace_batches, dt_batch, pending_ops, dt_pc, dt_work,
                     build_work>>
      /\ bd_pc' # "build"
  BY BuildMoves, BuildFrame, Zenon DEF Build, fgVars, drVars, dtVars, detectorVars
<1>1. /\ FgOps' = FgOps /\ RingOps' = RingOps /\ DrainOps' = DrainOps /\ BatchOps' = BatchOps
      /\ DetectOps' = DetectOps /\ HeldOps' = HeldOps /\ CutOps' = CutOps /\ QueueOps' = QueueOps
  <2>1. FgOps' = FgOps /\ RingOps' = RingOps /\ DrainOps' = DrainOps
    BY <1>0, SMTT(30) DEF FgOps, RingOps, DrainOps
  <2>2. BatchOps' = BatchOps
    BY <1>0, <2>1, Zenon DEF BatchOps
  <2>3. DetectOps' = DetectOps /\ HeldOps' = HeldOps /\ CutOps' = CutOps
    BY <1>0, <2>2, Zenon DEF DetectOps, HeldOps, CutOps
  <2> QED
    BY <1>0, <2>1, <2>2, <2>3, Zenon DEF QueueOps
<1>2. /\ RingOrder' /\ DrainOrder' /\ BatchOrder' /\ DetectOrder' /\ HeldOrder' /\ CutOrder'
      /\ QueueOrder'
  BY <1>0, <1>1, Zenon DEF OrderInv, RingOrder, DrainOrder, BatchOrder, DetectOrder, HeldOrder, CutOrder,
                    QueueOrder
<1>3. BuiltOrder' /\ BuildOps' = QueueOps /\ QueueOps \subseteq BuildOps
  BY <1>0, <1>1, SMTT(30) DEF BuiltOrder, BuildOps
<1> QED
  BY <1>1, <1>2, <1>3, SMTT(30) DEF OrderInv, OrderKept

(* The publish stage moves no op. *)
LEMMA PublishOps ==
    ASSUME OrderInv, Publish PROVE OrderInv' /\ BuildOps' = BuildOps /\ UNCHANGED mhead
<1>1. UNCHANGED <<fgVars, ring, drVars, trace_batches, dtVars, build_work, bdVars>>
  BY PublishFrame
<1>2. FgOps' \subseteq FgOps \cup {}
  BY <1>1 DEF FgOps, fgVars
<1>3. OrderInv'
  BY <1>1, <1>2, KeepAll, NothingLater, Zenon DEF OrderKept
<1>4. BuildOps' = BuildOps
  BY <1>1 DEF BuildOps, QueueOps, CutOps, HeldOps, DetectOps, BatchOps, DrainOps, RingOps, FgOps,
              fgVars, drVars, dtVars, detectorVars, bdVars
<1> QED
  BY <1>1, <1>3, <1>4, SMTT(30) DEF fgVars

-----------------------------------------------------------------------------
(* What the metadata log guards. *)

(* The ops on their way are ops. *)
LEMMA OpsAreTyped == Shape => BuildOps \subseteq Op
<1> SUFFICES ASSUME Shape PROVE BuildOps \subseteq Op
  OBVIOUS
<1>0. ForegroundShape /\ DrainShape /\ DetectShape /\ BuildShape
  BY DEF Shape
<1>1. \A s \in Seq(Op) : Range(s) \subseteq Op
  BY LenProperties DEF Range
<1>2. \A w \in Work \cup Marker : OpsOf(w) \subseteq Op
  <2> SUFFICES ASSUME NEW w \in Work \cup Marker, w.kind = "work" PROVE Range(w.ops) \subseteq Op
    BY DEF OpsOf
  <2>1. w \in Work
    BY KindFacts
  <2> QED
    BY <1>1, <2>1 DEF Work
<1>3. DrainOps \subseteq Op
  <2>1. fg_op \in Op \cup {None} /\ ring \in Seq(Op) /\ dr_batch \in Seq(Op)
    BY <1>0 DEF ForegroundShape, DrainShape
  <2> QED
    BY <1>1, <2>1, Zenon DEF DrainOps, RingOps, FgOps
<1>4. BatchOps \subseteq Op
  <2>0. \A i \in DOMAIN trace_batches : trace_batches[i] \in Batch
    BY <1>0, LenProperties DEF DrainShape
  <2>1. \A i \in DOMAIN trace_batches : trace_batches[i].ops \in Seq(Op)
    BY <2>0 DEF Batch
  <2> QED
    BY <1>1, <1>3, <2>1, Zenon DEF BatchOps
<1>5. HeldOps \subseteq Op
  BY <1>0, <1>1, <1>4, SMTT(30) DEF DetectShape, HeldOps, DetectOps
<1>6. CutOps \subseteq Op
  BY <1>0, <1>2, <1>5, SMTT(30) DEF DetectShape, CutOps
<1>7. QueueOps \subseteq Op
  <2>1. \A i \in DOMAIN build_work : OpsOf(build_work[i]) \subseteq Op
    BY <1>0, <1>2, LenProperties, SMTT(30) DEF DetectShape
  <2> QED
    BY <1>6, <2>1, SMTT(30) DEF QueueOps
<1> QED
  BY <1>0, <1>2, <1>7, SMTT(30) DEF BuildShape, BuildOps

(* The numbers of an op with records. *)
LEMMA OpNumbers ==
    ASSUME NEW op \in Op, HasRecords(op) PROVE op.n \in Nat /\ op.meta_start \in Nat
<1>1. op.n \in Tensors /\ op.meta_start \in Nat \cup {NoMeta}
  BY DEF Op
<1>2. Tensors \subseteq Nat
  BY SizesAssumption
<1> QED
  BY <1>1, <1>2, Zenon DEF HasRecords

(* The ends of the messages are numbers. *)
LEMMA MessageTypes ==
    ASSUME Shape
    PROVE  /\ Len(graph_publish) \in Nat /\ DOMAIN graph_publish = 1 .. Len(graph_publish)
           /\ \A i \in DOMAIN graph_publish :
                 Releases(graph_publish[i]) => graph_publish[i].meta_end \in Nat
           /\ pb_pc \in {"publish", "handover"} => pb_region \in Region /\ pb_region.meta_end \in Nat
           /\ mtail \in Nat /\ mhead \in Nat
<1>1. \A m \in Region \cup Release \cup Marker : Releases(m) => m.meta_end \in Nat
  <2> SUFFICES ASSUME NEW m \in Region \cup Release \cup Marker, Releases(m) PROVE m.meta_end \in Nat
    OBVIOUS
  <2>1. m \in Region \cup Release
    BY KindFacts DEF Releases
  <2> QED
    BY <2>1 DEF Region, Release
<1>2. Len(graph_publish) \in Nat /\ DOMAIN graph_publish = 1 .. Len(graph_publish)
  BY LenProperties, Zenon DEF Shape, BuildShape
<1>3. \A i \in DOMAIN graph_publish : Releases(graph_publish[i]) => graph_publish[i].meta_end \in Nat
  BY <1>1, <1>2, LenProperties, Zenon DEF Shape, BuildShape
<1>4. pb_pc \in {"publish", "handover"} => pb_region \in Region /\ pb_region.meta_end \in Nat
  BY Zenon DEF Shape, BuildShape, Region
<1> QED
  BY <1>2, <1>3, <1>4 DEF Shape, ForegroundShape

(* Released, in the next state. *)
ReleasedNext(end) ==
    /\ mtail' < end /\ end <= mhead'
    /\ \A op \in BuildOps' : HasRecords(op) => end <= op.meta_start

(* The floor after a step, with the end of a message named. *)
LEMMA FloorNext ==
    /\ (\A i \in DOMAIN graph_publish' : Releases(graph_publish'[i]) =>
          /\ ReleasedNext(graph_publish'[i].meta_end)
          /\ \A j \in DOMAIN graph_publish' :
                i < j /\ Releases(graph_publish'[j])
                  => graph_publish'[i].meta_end < graph_publish'[j].meta_end)
       => MessageBounds'
    /\ (pb_pc' = "publish" /\ Releases(pb_region') =>
          /\ ReleasedNext(pb_region'.meta_end)
          /\ \A j \in DOMAIN graph_publish' :
                Releases(graph_publish'[j]) => pb_region'.meta_end < graph_publish'[j].meta_end)
       => RegionBounds'
BY Zenon DEF MessageBounds, RegionBounds, Released, ReleasedNext, Releases

(* A step that leaves the log and the messages alone and brings no op keeps
   what the log guards. *)
LEMMA FloorKeep ==
    ASSUME FloorInv, BuildOps' \subseteq BuildOps,
           UNCHANGED <<mhead, mtail, graph_publish, pb_pc, pb_region>>
    PROVE  FloorInv'
<1>1. \A e : Released(e) => Released(e)'
  BY Zenon DEF Released
<1>2. LogBounds' /\ RecordBounds'
  BY Zenon DEF FloorInv, LogBounds, RecordBounds
<1>3. MessageBounds'
  BY <1>1, Zenon DEF FloorInv, MessageBounds
<1>4. RegionBounds'
  BY <1>1, SMTT(30) DEF FloorInv, RegionBounds
<1> QED
  BY <1>2, <1>3, <1>4, SMTT(30) DEF FloorInv

(* An op is recorded at the head, within the capacity of the log. *)
LEMMA AppendMetaFloor ==
    ASSUME Shape, OrderInv, FloorInv, NEW n \in Tensors, AppendMeta(n) PROVE FloorInv'
<1>1. BuildOps' \subseteq BuildOps \cup {fg_op'}
  BY AppendMetaOrder, Zenon DEF OrderKept
<1>2. UNCHANGED <<mtail, graph_publish, pb_pc, pb_region>>
  BY DEF AppendMeta, pbVars
<1>3. /\ n \in Nat /\ mhead \in Nat /\ mtail \in Nat /\ METAS \in Nat
  BY SizesAssumption, SMTT(30) DEF Shape, ForegroundShape
<1>4. /\ fg_op'.n = n /\ fg_op'.meta_start = (IF MetaFits(n) THEN mhead ELSE NoMeta)
      /\ mhead' = IF MetaFits(n) THEN mhead + n ELSE mhead
  BY DEF AppendMeta
<1>5. mhead' \in Nat /\ mhead <= mhead'
  BY <1>3, <1>4, SMTT(30)
<1>6. LogBounds'
  BY <1>2, <1>3, <1>4, SMTT(30) DEF FloorInv, LogBounds, MetaFits
<1>7. HasRecords(fg_op') => /\ fg_op'.n > 0 /\ fg_op'.meta_start = mhead
                            /\ fg_op'.meta_start + fg_op'.n <= mhead'
  BY <1>3, <1>4, SMTT(30) DEF HasRecords, MetaFits
<1>8. mtail <= mhead
  BY DEF FloorInv, LogBounds
<1>9. RecordBounds'
  <2> SUFFICES ASSUME NEW op \in BuildOps', HasRecords(op)
               PROVE  op.n > 0 /\ mtail <= op.meta_start /\ op.meta_start + op.n <= mhead'
    BY <1>2, SMTT(30) DEF RecordBounds
  <2>1. CASE op = fg_op'
    BY <1>7, <1>8, <2>1, Zenon
  <2>2. CASE op \in BuildOps
    <3>1. op.n > 0 /\ mtail <= op.meta_start /\ op.meta_start + op.n <= mhead
      BY <2>2, SMTT(30) DEF FloorInv, RecordBounds
    <3>2. op \in Op
      BY <2>2, OpsAreTyped, SMTT(30)
    <3>3. op.meta_start \in Nat /\ op.n \in Nat
      BY <2>2, <3>2, OpNumbers, SMTT(30)
    <3> QED
      BY <1>3, <1>5, <3>1, <3>3, SMTT(60)
  <2> QED
    BY <1>1, <2>1, <2>2, Zenon
<1>10. ASSUME NEW e \in Nat, Released(e) PROVE Released(e)'
  <2>1. mtail' < e /\ e <= mhead'
    BY <1>2, <1>3, <1>5, <1>10, SMTT(60) DEF Released
  <2>2. ASSUME NEW op \in BuildOps', HasRecords(op) PROVE e <= op.meta_start
    <3>1. CASE op = fg_op'
      BY <1>7, <1>10, <2>2, <3>1, SMTT(60) DEF Released
    <3>2. CASE op \in BuildOps
      BY <1>10, <2>2, <3>2, Zenon DEF Released
    <3> QED
      BY <1>1, <3>1, <3>2, SMTT(30)
  <2> QED
    BY <2>1, <2>2, SMTT(30) DEF Released
<1>11. MessageBounds'
  BY <1>2, <1>10, MessageTypes, Zenon DEF FloorInv, MessageBounds
<1>12. RegionBounds'
  BY <1>2, <1>10, MessageTypes, Zenon DEF FloorInv, RegionBounds
<1> QED
  BY <1>6, <1>9, <1>11, <1>12, SMTT(30) DEF FloorInv

(* The result of a build is released after what was sent before it. *)
LEMMA BuildPushFloor == ASSUME LeastNumber, Shape, OrderInv, FloorInv, BuildPush PROVE FloorInv'
<1>0. /\ UNCHANGED <<mhead, mtail, pb_pc, pb_region>> /\ BuildOps' = QueueOps
      /\ BuildOps' \subseteq BuildOps /\ bd_pc = "build"
  BY BuildPushOrder, BuildMoves, BuildFrame, SMTT(30) DEF Build, fgVars, pbVars, OrderKept
<1>1. CASE UNCHANGED graph_publish
  BY <1>0, <1>1, FloorKeep, Zenon
<1>2. ASSUME NEW m, Sent(m) PROVE FloorInv'
  <2> DEFINE c == Len(graph_publish)
  <2>0. /\ m \in Region \cup Release \cup Marker /\ graph_publish' = Append(graph_publish, m)
        /\ graph_publish \in Seq(Region \cup Release \cup Marker)
    BY <1>2, Zenon DEF Sent, Shape, BuildShape
  <2>1. /\ c \in Nat /\ DOMAIN graph_publish = 1 .. c
        /\ DOMAIN graph_publish' = 1 .. c + 1
        /\ \A i \in 1 .. c : graph_publish'[i] = graph_publish[i]
        /\ graph_publish'[c + 1] = m
    BY <2>0, PublishAppended, Zenon
  <2>2. \A i \in 1 .. c + 1 : i \in 1 .. c \/ i = c + 1
    BY <2>1
  <2> HIDE DEF c
  <2>3. \A e : Released(e) => ReleasedNext(e)
    BY <1>0, Zenon DEF Released, ReleasedNext
  <2>4. LogBounds' /\ RecordBounds'
    BY <1>0, SMTT(30) DEF FloorInv, LogBounds, RecordBounds
  <2>5. ASSUME Releases(m)
        PROVE  /\ m.meta_end \in Nat /\ ReleasedNext(m.meta_end)
               /\ \A e \in Nat : Released(e) => e < m.meta_end
    <3>1. /\ bd_out \in Work /\ m \in Region \cup Release /\ m.meta_end = MetaEnd(bd_out.ops)
          /\ m.meta_end > 0
      BY <1>2, <2>5, KindFacts, SMTT(30) DEF Sent, Releases
    <3>2. bd_out.ops \in Seq(Op) /\ OpsOf(bd_out) = Range(bd_out.ops)
      BY <3>1, KindFacts, Zenon DEF Work, OpsOf
    <3>3. PICK i \in 1 .. Len(bd_out.ops) : /\ HasRecords(bd_out.ops[i])
                                            /\ m.meta_end = bd_out.ops[i].meta_start + bd_out.ops[i].n
      BY <3>1, <3>2, MetaEndFacts, Zenon DEF HasRecords
    <3>4. PICK op \in OpsOf(bd_out) : HasRecords(op) /\ m.meta_end = op.meta_start + op.n
      <4>1. bd_out.ops[i] \in OpsOf(bd_out)
        BY <3>2, LenProperties, Zenon DEF Range
      <4> QED
        BY <3>3, <4>1, Zenon
    <3>5. op \in BuildOps
      BY <1>0, <3>4, SMTT(30) DEF BuildOps
    <3>6. op \in Op
      BY <3>5, OpsAreTyped, SMTT(30)
    <3>7. op.meta_start \in Nat /\ op.n \in Nat
      BY <3>4, <3>6, OpNumbers, SMTT(30)
    <3>8. op.n > 0 /\ mtail <= op.meta_start /\ op.meta_start + op.n <= mhead
      BY <3>4, <3>5, Zenon DEF FloorInv, RecordBounds
    <3>9. mtail \in Nat /\ mhead \in Nat
      BY MessageTypes, SMTT(30)
    <3>10. m.meta_end \in Nat /\ mtail < m.meta_end /\ m.meta_end <= mhead
      BY <3>4, <3>7, <3>8, <3>9, SMTT(60)
    <3>11. \A x \in QueueOps : HasRecords(x) => m.meta_end <= x.meta_start
      <4>1. Precede(OpsOf(bd_out), QueueOps)
        BY <1>0, SMTT(30) DEF OrderInv, BuiltOrder
      <4> QED
        BY <3>4, <4>1, SMTT(30) DEF Precede, Before
    <3>12. ReleasedNext(m.meta_end)
      BY <1>0, <3>10, <3>11, Zenon DEF ReleasedNext
    <3>13. ASSUME NEW e \in Nat, Released(e) PROVE e < m.meta_end
      <4>1. e <= op.meta_start
        BY <3>4, <3>5, <3>13, SMTT(30) DEF Released
      <4> QED
        BY <3>4, <3>7, <3>8, <4>1, SMTT(30)
    <3> QED
      BY <3>10, <3>12, <3>13, Zenon
  <2>6. \A i \in 1 .. c : Releases(graph_publish[i]) =>
           /\ graph_publish[i].meta_end \in Nat /\ Released(graph_publish[i].meta_end)
           /\ \A j \in 1 .. c : i < j /\ Releases(graph_publish[j])
                                  => graph_publish[i].meta_end < graph_publish[j].meta_end
    BY <2>1, MessageTypes, Zenon DEF FloorInv, MessageBounds
  <2>7. MessageBounds'
    <3> SUFFICES ASSUME NEW i \in DOMAIN graph_publish', Releases(graph_publish'[i])
                 PROVE  /\ ReleasedNext(graph_publish'[i].meta_end)
                        /\ \A j \in DOMAIN graph_publish' :
                              i < j /\ Releases(graph_publish'[j])
                                => graph_publish'[i].meta_end < graph_publish'[j].meta_end
      BY FloorNext, Zenon
    <3>1. CASE i = c + 1
      <4>1. \A j \in DOMAIN graph_publish' : ~(i < j)
        BY <2>1, <3>1, SMTT(30)
      <4>2. graph_publish'[i] = m
        BY <2>1, <3>1, Zenon
      <4>3. ReleasedNext(graph_publish'[i].meta_end)
        BY <2>5, <4>2, Zenon
      <4> QED
        BY <4>1, <4>3, Zenon
    <3>2. CASE i \in 1 .. c
      <4>1. graph_publish'[i] = graph_publish[i]
        BY <2>1, <3>2, Zenon
      <4>2. ReleasedNext(graph_publish[i].meta_end) /\ Released(graph_publish[i].meta_end)
            /\ graph_publish[i].meta_end \in Nat
        BY <2>3, <2>6, <3>2, <4>1, Zenon
      <4>3. ASSUME NEW j \in DOMAIN graph_publish', i < j, Releases(graph_publish'[j])
            PROVE  graph_publish[i].meta_end < graph_publish'[j].meta_end
        <5>1. CASE j \in 1 .. c
          BY <2>1, <2>6, <3>2, <4>1, <4>3, <5>1, Zenon
        <5>2. CASE j = c + 1
          BY <2>1, <2>5, <4>2, <4>3, <5>2, Zenon
        <5> QED
          BY <2>1, <2>2, <5>1, <5>2, Zenon
      <4>4. ReleasedNext(graph_publish'[i].meta_end)
        BY <4>1, <4>2, Zenon
      <4> QED
        BY <4>1, <4>3, <4>4, Zenon
    <3> QED
      BY <2>1, <2>2, <3>1, <3>2, Zenon
  <2>8. RegionBounds'
    <3> SUFFICES ASSUME pb_pc = "publish", Releases(pb_region)
                 PROVE  /\ ReleasedNext(pb_region.meta_end)
                        /\ \A j \in DOMAIN graph_publish' :
                              Releases(graph_publish'[j]) => pb_region.meta_end < graph_publish'[j].meta_end
      BY <1>0, FloorNext, Zenon
    <3>1. pb_region.meta_end \in Nat /\ Released(pb_region.meta_end)
      BY MessageTypes, Zenon DEF FloorInv, RegionBounds
    <3>2. \A j \in 1 .. c : Releases(graph_publish[j]) => pb_region.meta_end < graph_publish[j].meta_end
      BY <2>1, Zenon DEF FloorInv, RegionBounds
    <3>3. ASSUME NEW j \in DOMAIN graph_publish', Releases(graph_publish'[j])
          PROVE  pb_region.meta_end < graph_publish'[j].meta_end
      <4>1. CASE j \in 1 .. c
        BY <2>1, <3>2, <3>3, <4>1, Zenon
      <4>2. CASE j = c + 1
        BY <2>1, <2>5, <3>1, <3>3, <4>2, Zenon
      <4> QED
        BY <2>1, <2>2, <4>1, <4>2, SMTT(60)
    <3> QED
      BY <1>0, <2>3, <3>1, <3>3, Zenon
  <2> QED
    BY <2>4, <2>7, <2>8, Zenon DEF FloorInv
<1>3. UNCHANGED graph_publish \/ \E m : Sent(m)
  BY BuildPushFacts
<1> QED
  BY <1>1, <1>2, <1>3, Zenon

(* A release moves the tail to an end that every record upstream is past. *)
LEMMA TailMoves ==
    ASSUME Shape, FloorInv, NEW end \in Nat, end > 0 => Released(end), ReleaseMetaLog(end),
           BuildOps' = BuildOps, UNCHANGED mhead
    PROVE  /\ mtail' \in Nat /\ LogBounds' /\ RecordBounds'
           /\ \A e \in Nat : Released(e) /\ end < e => ReleasedNext(e)
<1>0. mtail \in Nat /\ mhead \in Nat /\ METAS \in Nat
  BY MessageTypes, SizesAssumption, Zenon
<1>1. CASE end = 0
  <2>1. mtail' = mtail
    BY <1>1 DEF ReleaseMetaLog
  <2> QED
    BY <1>0, <2>1, SMTT(30) DEF FloorInv, LogBounds, RecordBounds, Released, ReleasedNext
<1>2. CASE end > 0
  <2>1. mtail' = end /\ mtail < end /\ end <= mhead
    BY <1>2 DEF ReleaseMetaLog, Released
  <2>2. LogBounds'
    BY <1>0, <2>1, SMTT(30) DEF FloorInv, LogBounds
  <2>3. RecordBounds'
    BY <1>2, <2>1, SMTT(30) DEF FloorInv, RecordBounds, Released
  <2>4. \A e \in Nat : Released(e) /\ end < e => ReleasedNext(e)
    BY <2>1 DEF Released, ReleasedNext
  <2> QED
    BY <2>1, <2>2, <2>3, <2>4, Zenon
<1> QED
  BY <1>1, <1>2, SMTT(30)

(* The first message leaves the channel: the rest are past it. *)
LEMMA PublishPopFloor == ASSUME Shape, OrderInv, FloorInv, PublishPop PROVE FloorInv'
<1>0. /\ graph_publish \in Seq(Region \cup Release \cup Marker) /\ graph_publish # << >>
      /\ graph_publish' = Tail(graph_publish) /\ pb_pc = "pop"
      /\ BuildOps' = BuildOps /\ UNCHANGED mhead
  BY PublishOps DEF Shape, BuildShape, PublishPop, Publish
<1> DEFINE c == Len(graph_publish)
<1>1. /\ c \in Nat \ {0} /\ DOMAIN graph_publish = 1 .. c /\ 1 \in DOMAIN graph_publish
      /\ DOMAIN graph_publish' = 1 .. c - 1
      /\ \A i \in 1 .. c - 1 : /\ graph_publish'[i] = graph_publish[i + 1]
                               /\ i + 1 \in DOMAIN graph_publish
  BY <1>0, TailFacts, Zenon
<1>2. \A i \in 1 .. c - 1 : 1 < i + 1 /\ \A j \in 1 .. c - 1 : i < j => i + 1 < j + 1
  BY <1>1
<1> HIDE DEF c
<1>3. PICK m \in Region \cup Release \cup Marker :
            /\ m = graph_publish[1]
            /\ PopStop(m) \/ PopCommit(m) \/ PopRelease(m) \/ PopRegion(m)
  BY PublishPopFacts, Zenon
<1>4. \A i \in 1 .. c - 1 : Releases(graph_publish'[i]) =>
         /\ graph_publish'[i].meta_end \in Nat
         /\ Released(graph_publish'[i].meta_end)
         /\ Releases(m) => m.meta_end < graph_publish'[i].meta_end
         /\ \A j \in 1 .. c - 1 : i < j /\ Releases(graph_publish'[j])
                => graph_publish'[i].meta_end < graph_publish'[j].meta_end
  <2> SUFFICES ASSUME NEW i \in 1 .. c - 1, Releases(graph_publish'[i])
               PROVE  /\ graph_publish'[i].meta_end \in Nat
                      /\ Released(graph_publish'[i].meta_end)
                      /\ Releases(m) => m.meta_end < graph_publish'[i].meta_end
                      /\ \A j \in 1 .. c - 1 : i < j /\ Releases(graph_publish'[j])
                             => graph_publish'[i].meta_end < graph_publish'[j].meta_end
    OBVIOUS
  <2>1. graph_publish'[i] = graph_publish[i + 1] /\ i + 1 \in DOMAIN graph_publish
        /\ Releases(graph_publish[i + 1])
    BY <1>1, Zenon
  <2>2. /\ graph_publish[i + 1].meta_end \in Nat
        /\ Released(graph_publish[i + 1].meta_end)
    BY <2>1, MessageTypes, Zenon DEF FloorInv, MessageBounds
  <2>3. Releases(m) => m.meta_end < graph_publish[i + 1].meta_end
    BY <1>1, <1>2, <1>3, <2>1, Zenon DEF FloorInv, MessageBounds
  <2>4. ASSUME NEW j \in 1 .. c - 1, i < j, Releases(graph_publish'[j])
        PROVE  graph_publish[i + 1].meta_end < graph_publish'[j].meta_end
    BY <1>1, <1>2, <2>1, <2>4, Zenon DEF FloorInv, MessageBounds
  <2> QED
    BY <2>1, <2>2, <2>3, <2>4, Zenon
<1>5. Releases(m) => m.meta_end \in Nat /\ Released(m.meta_end)
  BY <1>1, <1>3, MessageTypes, Zenon DEF FloorInv, MessageBounds
<1>6. CASE PopStop(m) \/ PopCommit(m) \/ PopRegion(m)
  <2>1. UNCHANGED mtail
    BY <1>6, SMTT(30) DEF PopStop, PopCommit, PopRegion
  <2>2. \A e : Released(e) => ReleasedNext(e)
    BY <1>0, <2>1, SMTT(30) DEF Released, ReleasedNext
  <2>3. LogBounds' /\ RecordBounds'
    BY <1>0, <2>1, Zenon DEF FloorInv, LogBounds, RecordBounds
  <2>4. MessageBounds'
    BY <1>1, <1>4, <2>2, FloorNext, Zenon
  <2>5. pb_pc' = "publish" => pb_region' = m
    BY <1>0, <1>6, Zenon DEF PopStop, PopCommit, PopRegion
  <2>6. RegionBounds'
    BY <1>1, <1>4, <1>5, <2>2, <2>5, FloorNext, Zenon
  <2> QED
    BY <2>3, <2>4, <2>6, Zenon DEF FloorInv
<1>7. CASE PopRelease(m)
  <2>1. /\ m \in Region \cup Release /\ ReleaseMetaLog(m.meta_end) /\ pb_pc' # "publish"
    BY <1>0, <1>7, Zenon DEF PopRelease
  <2>2. m.meta_end \in Nat /\ (m.meta_end > 0 => Releases(m))
    BY <2>1, SMTT(30) DEF Region, Release, Releases
  <2>3. /\ LogBounds' /\ RecordBounds'
        /\ \A e \in Nat : Released(e) /\ m.meta_end < e => ReleasedNext(e)
    BY <1>0, <1>5, <2>1, <2>2, TailMoves, Zenon
  <2>4. \A i \in 1 .. c - 1 : Releases(graph_publish'[i]) => m.meta_end < graph_publish'[i].meta_end
    <3> SUFFICES ASSUME NEW i \in 1 .. c - 1, Releases(graph_publish'[i])
                 PROVE  m.meta_end < graph_publish'[i].meta_end
      BY Zenon
    <3>1. CASE m.meta_end > 0
      BY <1>4, <2>2, <3>1, Zenon
    <3>2. CASE m.meta_end = 0
      BY <3>2, Zenon DEF Releases
    <3> QED
      BY <2>2, <3>1, <3>2, SMTT(30)
  <2>5. MessageBounds'
    BY <1>1, <1>4, <2>3, <2>4, FloorNext, Zenon
  <2>6. RegionBounds'
    BY <2>1 DEF RegionBounds
  <2> QED
    BY <2>3, <2>5, <2>6, Zenon DEF FloorInv
<1> QED
  BY <1>3, <1>6, <1>7, SMTT(30)

(* The release of the region published: its end is past the tail, and
   neither past the records of an op on its way nor past a later release. *)
LEMMA PublishReleaseFloor == ASSUME Shape, OrderInv, FloorInv, PublishRelease PROVE FloorInv'
<1>0. /\ pb_pc = "publish" /\ pb_pc' # "publish" /\ ReleaseMetaLog(pb_region.meta_end)
      /\ BuildOps' = BuildOps /\ UNCHANGED <<mhead, graph_publish>>
  BY PublishOps, Zenon DEF PublishRelease, Publish
<1>1. pb_region \in Region /\ pb_region.meta_end \in Nat
  BY <1>0, MessageTypes, SMTT(30)
<1>2. pb_region.meta_end > 0 => Releases(pb_region)
  BY <1>1, KindFacts, Zenon DEF Releases
<1>3. pb_region.meta_end > 0 =>
         /\ Released(pb_region.meta_end)
         /\ \A j \in DOMAIN graph_publish :
               Releases(graph_publish[j]) => pb_region.meta_end < graph_publish[j].meta_end
  BY <1>0, <1>2, Zenon DEF FloorInv, RegionBounds
<1>4. /\ LogBounds' /\ RecordBounds'
      /\ \A e \in Nat : Released(e) /\ pb_region.meta_end < e => ReleasedNext(e)
  BY <1>0, <1>1, <1>3, TailMoves, Zenon
<1>5. \A j \in DOMAIN graph_publish :
         Releases(graph_publish[j]) => pb_region.meta_end < graph_publish[j].meta_end
  <2>1. CASE pb_region.meta_end > 0
    BY <1>3, <2>1, Zenon
  <2>2. CASE ~(pb_region.meta_end > 0)
    <3>1. pb_region.meta_end = 0
      BY <1>1, <2>2
    <3>2. \A x : Releases(x) => 0 < x.meta_end
      BY SMTT(30) DEF Releases
    <3> QED
      BY <3>1, <3>2, Zenon
  <2> QED
    BY <2>1, <2>2, Zenon
<1>6. \A i \in DOMAIN graph_publish : Releases(graph_publish[i]) =>
         ReleasedNext(graph_publish[i].meta_end)
  BY <1>4, <1>5, MessageTypes, Zenon DEF FloorInv, MessageBounds
<1>7. MessageBounds'
  BY <1>0, <1>6, FloorNext, Zenon DEF FloorInv, MessageBounds
<1>8. RegionBounds'
  BY <1>0, Zenon DEF RegionBounds
<1> QED
  BY <1>4, <1>7, <1>8, SMTT(30) DEF FloorInv

(* The handover of the region to the slot leaves the log alone. *)
LEMMA PublishHandoverFloor == ASSUME OrderInv, FloorInv, PublishHandover PROVE FloorInv'
<1>0. /\ pb_pc' # "publish" /\ BuildOps' = BuildOps /\ UNCHANGED <<mhead, mtail, graph_publish>>
  BY PublishOps, SMTT(30) DEF PublishHandover, Publish
<1>1. \A e : Released(e) => ReleasedNext(e)
  BY <1>0, SMTT(30) DEF Released, ReleasedNext
<1>2. LogBounds' /\ RecordBounds'
  BY <1>0, Zenon DEF FloorInv, LogBounds, RecordBounds
<1>3. MessageBounds'
  BY <1>0, <1>1, FloorNext, Zenon DEF FloorInv, MessageBounds
<1>4. RegionBounds'
  BY <1>0, Zenon DEF RegionBounds
<1> QED
  BY <1>2, <1>3, <1>4, Zenon DEF FloorInv

(* The order and the floor go together: a new record starts at the head. *)
LEMMA RecordsStep ==
    ASSUME LeastNumber PROVE CoreInv /\ OrderInv /\ FloorInv /\ [Next]_vars => OrderInv' /\ FloorInv'
<1> SUFFICES ASSUME CoreInv, OrderInv, FloorInv, [Next]_vars PROVE OrderInv' /\ FloorInv'
  OBVIOUS
<1>0. Shape /\ DetectorInv
  BY DEF CoreInv
<1>1. ASSUME OrderKept({}), UNCHANGED <<mhead, mtail, graph_publish, pb_pc, pb_region>>
      PROVE  OrderInv' /\ FloorInv'
  BY <1>1, FloorKeep, Zenon DEF OrderKept
<1>2. ASSUME UNCHANGED <<fg_op, mhead, ring, drVars, trace_batches, dtVars, build_work, bdVars,
                         mtail, graph_publish, pb_pc, pb_region>>
      PROVE  OrderInv' /\ FloorInv'
  <2>1. FgOps' \subseteq FgOps \cup {}
    BY <1>2, SMTT(30) DEF FgOps
  <2> QED
    BY <1>1, <1>2, <2>1, KeepAll, NothingLater, Zenon
<1>3. CASE Foreground
  <2>0. UNCHANGED <<drVars, trace_batches, dtVars, build_work, bdVars, mtail, graph_publish, pb_pc, pb_region>>
    BY <1>3, ForegroundFrame DEF pbVars
  <2>1. ASSUME NEW n \in Tensors, AppendMeta(n) PROVE OrderInv' /\ FloorInv'
    BY <1>0, <2>1, AppendMetaOrder, AppendMetaFloor, SMTT(30) DEF OrderKept
  <2>2. CASE AppendRing
    <3>1. UNCHANGED mhead
      BY <2>2, Zenon DEF AppendRing
    <3> QED
      BY <1>0, <1>1, <2>0, <2>2, <3>1, AppendRingOrder, Zenon
  <2>3. CASE ~AppendRing /\ UNCHANGED <<fg_op, mhead>>
    BY <1>2, <1>3, <2>0, <2>3, ForegroundFrame, Zenon
  <2> QED
    BY <1>3, <2>1, <2>2, <2>3, ForegroundFrame, Zenon
<1>4. CASE Drain
  <2>0. UNCHANGED <<mhead, mtail, graph_publish, pb_pc, pb_region>>
    BY <1>4, DrainFrame DEF fgVars, pbVars
  <2>1. CASE DrainPeek
    <3>1. FgOps' \subseteq FgOps \cup {}
      BY <2>1, SMTT(30) DEF FgOps, DrainPeek, fgVars
    <3>2. UNCHANGED <<ring, dr_batch, trace_batches, dtVars, build_work, bdVars>>
      BY <2>1, Zenon DEF DrainPeek
    <3>3. RingOrder' /\ RingOps' \subseteq RingOps \cup {}
      BY <3>1, <3>2, KeepRing, NothingLater, Zenon DEF OrderInv
    <3>4. DrainOrder' /\ DrainOps' \subseteq DrainOps \cup {}
      BY <3>2, <3>3, KeepDrain, NothingLater, Zenon DEF OrderInv
    <3> QED
      BY <1>1, <2>0, <3>2, <3>3, <3>4, KeepFromBatches, NothingLater, Zenon
  <2>2. CASE DrainPop
    BY <1>0, <1>1, <2>0, <2>2, DrainPopOrder, SMTT(60)
  <2>3. CASE DrainPush
    BY <1>0, <1>1, <2>0, <2>3, DrainPushOrder, Zenon
  <2>4. CASE DrainSentinel
    BY <1>0, <1>1, <2>0, <2>4, DrainSentinelOrder
  <2> QED
    BY <1>4, <2>1, <2>2, <2>3, <2>4, Zenon DEF Drain
<1>5. CASE Detect
  <2>0. UNCHANGED <<mhead, mtail, graph_publish, pb_pc, pb_region>>
    BY <1>5, DetectFrame DEF fgVars, pbVars
  <2>1. OrderKept({})
    BY <1>0, <1>5, DetectPopOrder, DetectOpOrder, DetectPushOrder, Zenon DEF Detect
  <2> QED
    BY <1>1, <2>0, <2>1, Zenon
<1>6. CASE BuildPop
  <2>0. UNCHANGED <<mhead, mtail, graph_publish, pb_pc, pb_region>>
    BY <1>6, BuildFrame, BuildMoves, Zenon DEF Build, fgVars, pbVars
  <2> QED
    BY <1>0, <1>1, <1>6, <2>0, BuildPopOrder, Zenon
<1>7. CASE BuildPush
  BY <1>0, <1>7, BuildPushOrder, BuildPushFloor, SMTT(30) DEF OrderKept
<1>8. CASE Publish
  BY <1>0, <1>8, PublishOps, PublishPopFloor, PublishReleaseFloor, PublishHandoverFloor, Zenon DEF Publish
<1>9. CASE UNCHANGED vars
  BY <1>2, <1>9, SMTT(30) DEF vars, fgVars, pbVars
<1> QED
  BY <1>3, <1>4, <1>5, <1>6, <1>7, <1>8, <1>9, Zenon DEF Next, Build

-----------------------------------------------------------------------------
(* The metadata log is sound. *)

(* The inductive invariant of the metadata log. *)
MetaInv == CountInv /\ OrderInv /\ FloorInv

(* The pipeline starts with an empty log. *)
LEMMA MetaInit ==
    ASSUME LeastNumber PROVE Init => MetaInv
<1> SUFFICES ASSUME Init PROVE MetaInv
  OBVIOUS
<1>1. InOrder(<< >>) /\ Range(<< >>) = {} /\ DOMAIN << >> = {}
  BY SMTT(30) DEF InOrder, Range
<1>2. BuildOps = {}
  BY <1>1, SMTT(30) DEF Init, BuildOps, QueueOps, CutOps, HeldOps, DetectOps, BatchOps, DrainOps, RingOps, FgOps
<1>3. /\ RingOps = {} /\ DrainOps = {} /\ BatchOps = {} /\ DetectOps = {} /\ FgOps = {}
  BY <1>2, Zenon DEF BuildOps, QueueOps, CutOps, HeldOps, DetectOps, BatchOps, DrainOps, RingOps
<1>4. OrderInv
  BY <1>1, <1>3, NothingLater, Zenon DEF Init, OrderInv, RingOrder, DrainOrder, BatchOrder, DetectOrder,
     HeldOrder, CutOrder, QueueOrder, BuiltOrder
<1>5. FloorInv
  <2>1. LogBounds
    BY SizesAssumption, SMTT(30) DEF Init, LogBounds
  <2>2. RecordBounds /\ MessageBounds /\ RegionBounds
    BY <1>1, <1>2, SMTT(30) DEF Init, RecordBounds, MessageBounds, RegionBounds
  <2> QED
    BY <2>1, <2>2, Zenon DEF FloorInv
<1> QED
  BY <1>4, <1>5, CountInit, SMTT(30) DEF MetaInv

(* Every step keeps the invariant. *)
LEMMA MetaStep ==
    ASSUME LeastNumber PROVE MetaInv /\ [Next]_vars => MetaInv'
BY CountStep, RecordsStep, SMTT(30) DEF MetaInv, CountInv

(* The ops upstream of the release are among those on their way. *)
LEMMA UpstreamAreBuild == Shape => UpstreamOps \subseteq BuildOps
(* The ops of a place are upstream. *)
<1>Upstream.
    /\ Range(ring) \subseteq BuildOps /\ Range(dr_batch) \subseteq BuildOps
    /\ Range(dt_batch) \subseteq BuildOps /\ Range(pending_ops) \subseteq BuildOps
    /\ FgOps \subseteq BuildOps
  BY Zenon DEF BuildOps, QueueOps, CutOps, HeldOps, DetectOps, BatchOps, DrainOps, RingOps
<1> SUFFICES ASSUME Shape, NEW op \in UpstreamOps PROVE op \in BuildOps
  OBVIOUS
<1>1. CASE op \in FgOps \cup Range(ring) \cup Range(dr_batch) \cup Range(dt_batch) \cup Range(pending_ops)
  BY <1>1, <1>Upstream, Zenon
<1>2. ASSUME NEW b \in Range(trace_batches), op \in Range(b.ops) PROVE op \in BuildOps
  <2>1. PICK i \in DOMAIN trace_batches : b = trace_batches[i]
    BY DEF Range
  <2>2. op \in BatchOps
    BY <1>2, <2>1, Zenon DEF BatchOps
  <2> QED
    BY <2>2, Zenon DEF BuildOps, QueueOps, CutOps, HeldOps, DetectOps
<1>3. ASSUME NEW w \in Works, op \in Range(w.ops) PROVE op \in BuildOps
  <2>0. w \in Work => OpsOf(w) = Range(w.ops)
    BY KindFacts DEF OpsOf
  <2>1. CASE dt_pc = "push_work" /\ w = dt_work /\ w \in Work
    <3>1. op \in CutOps
      BY <1>3, <2>0, <2>1, SMTT(30) DEF CutOps
    <3> QED
      BY <3>1, Zenon DEF BuildOps, QueueOps
  <2>2. ASSUME NEW i \in 1 .. Len(build_work), w = build_work[i], w \in Work PROVE op \in BuildOps
    <3>1. i \in DOMAIN build_work /\ op \in OpsOf(build_work[i])
      BY <1>3, <2>0, <2>2, LenProperties, Zenon DEF Shape, DetectShape
    <3>2. op \in QueueOps
      BY <3>1, SMTT(30) DEF QueueOps
    <3> QED
      BY <3>2, Zenon DEF BuildOps
  <2>3. CASE bd_pc = "build" /\ w = bd_out /\ w \in Work
    BY <1>3, <2>0, <2>3, SMTT(30) DEF BuildOps
  <2> QED
    BY <2>1, <2>2, <2>3, WorksAre, Zenon
<1>4. \/ op \in FgOps \cup Range(ring) \cup Range(dr_batch) \cup Range(dt_batch) \cup Range(pending_ops)
      \/ op \in UNION {Range(b.ops) : b \in Range(trace_batches)}
      \/ op \in UNION {Range(w.ops) : w \in Works}
  BY Zenon DEF UpstreamOps, FgOps
<1>5. op \in UNION {Range(b.ops) : b \in Range(trace_batches)}
         => \E b \in Range(trace_batches) : op \in Range(b.ops)
  BY Zenon
<1>6. op \in UNION {Range(w.ops) : w \in Works} => \E w \in Works : op \in Range(w.ops)
  BY Zenon
<1> QED
  BY <1>1, <1>2, <1>3, <1>4, <1>5, <1>6, Zenon

(* Where the invariant holds, so do the bounds of every buffer. *)
LEMMA TypesState ==
    ASSUME LeastNumber PROVE MetaInv => TypeOK
(* Nothing is seen that was not produced, and nothing counted that was not
   seen. *)
<1>BoundState.      CountInv => seen <= produced /\ total_processed <= produced
  <2> SUFFICES ASSUME CountInv PROVE seen <= produced /\ total_processed <= produced
    OBVIOUS
  <2>1. /\ BuildCount \in Nat /\ total_processed \in Nat /\ dt_count \in Nat /\ seen \in Nat
        /\ Total(Counts(build_work)) \in Nat /\ Total(Counts(graph_publish)) \in Nat
        /\ Total(BatchSizes(trace_batches)) \in Nat
        /\ Len(ring) \in Nat /\ Len(dr_batch) \in Nat /\ Len(dt_batch) \in Nat
        /\ produced \in Nat
    BY CountTypes DEF CountInv, CoreInv
  <2>2. seen + Len(dt_batch) <= produced
    BY <2>1 DEF CountInv, ProducedInv
  <2>3. total_processed <= seen + Len(dt_batch)
    BY <2>1, SMTT(30) DEF CountInv, SeenInv
  <2> QED
    BY <2>1, <2>2, <2>3, SMTT(30)
<1> SUFFICES ASSUME MetaInv PROVE TypeOK
  OBVIOUS
<1>0. /\ CountInv /\ Shape /\ DetectorInv
      /\ ForegroundShape /\ DrainShape /\ DetectShape /\ BuildShape
  BY DEF MetaInv, CountInv, CoreInv, Shape
<1>1. {produced, seen, total_processed} \subseteq 0 .. MaxOps
  <2>1. seen <= produced /\ total_processed <= produced
    BY <1>0, <1>BoundState, Zenon
  <2>2. /\ produced \in Nat /\ produced <= MaxOps /\ MaxOps \in Nat /\ seen \in Nat
        /\ total_processed \in Nat
    BY <1>0, SizesAssumption, Zenon DEF ForegroundShape, DetectShape, BuildShape
  <2> QED
    BY <2>1, <2>2, SMTT(30)
<1>2. \A op \in UpstreamOps : op.n \in Tensors /\ op.meta_start \in Nat \cup {NoMeta}
  <2>1. UpstreamOps \subseteq Op
    BY <1>0, UpstreamAreBuild, OpsAreTyped, SMTT(30)
  <2> QED
    BY <2>1, SMTT(30) DEF Op
<1>3. Len(pending_ops) <= HISTORY \div 2 + K
  BY <1>0, Zenon DEF DetectorInv, HeldEnough
<1>4. \A c \in {trace_batches, build_work, graph_publish} : Len(c) <= DEPTH
  BY <1>0, Zenon DEF DrainShape, DetectShape, BuildShape
<1>5. /\ fg \in {"recording", "aligning", "compiled"} /\ slot \in {None} \cup 0 .. MaxSignals
      /\ signals \in 0 .. MaxSignals /\ Len(ring) <= RING
  BY <1>0, Zenon DEF ForegroundShape
<1>6. {mhead, mtail} \subseteq Nat /\ {pos, base, period, next_boundary, reset_epoch} \subseteq Nat
  BY <1>0, SMTT(30) DEF ForegroundShape, DetectShape
<1>7. {stop_requested, reset_requested} \subseteq BOOLEAN
  BY <1>0, Zenon DEF ForegroundShape
<1> QED
  BY <1>1, <1>2, <1>3, <1>4, <1>5, <1>6, <1>7, Zenon DEF TypeOK

(* Where the invariant holds, the records of an op on its way are in the
   log. *)
LEMMA RecordsState == MetaInv => RecordsStayPut
<1> SUFFICES ASSUME MetaInv PROVE RecordsStayPut
  OBVIOUS
<1>1. Shape /\ FloorInv
  BY DEF MetaInv, CountInv, CoreInv
<1>2. \A op \in UpstreamOps : op \in BuildOps
  BY <1>1, UpstreamAreBuild, Zenon
<1> QED
  BY <1>1, <1>2, SMTT(30) DEF RecordsStayPut, FloorInv, LogBounds, RecordBounds, HasRecords

(* Where the invariant holds, every release on its way is past the tail. *)
LEMMA ReleasesState == MetaInv => ReleasesAdvance
<1> SUFFICES ASSUME MetaInv, NEW m \in Messages, m.meta_end > 0, ~(m = pb_region /\ pb_pc = "handover")
             PROVE  m.meta_end > mtail
  BY DEF ReleasesAdvance
<1>1. Shape /\ FloorInv
  BY Zenon DEF MetaInv, CountInv, CoreInv
<1>2. mtail \in Nat /\ DOMAIN graph_publish = 1 .. Len(graph_publish)
  BY <1>1, MessageTypes, Zenon
<1>3. CASE pb_pc \in {"publish", "handover"} /\ m = pb_region /\ m \in Region
  <2>1. Releases(m) /\ m.meta_end \in Nat /\ pb_pc = "publish"
    BY <1>3, KindFacts, Zenon DEF Releases, Region
  <2>2. mtail < m.meta_end
    BY <1>1, <1>3, <2>1, Zenon DEF FloorInv, RegionBounds, Released
  <2> QED
    BY <1>2, <2>1, <2>2, SMTT(30)
<1>4. ASSUME NEW i \in 1 .. Len(graph_publish), m = graph_publish[i],
             graph_publish[i].kind \in {"region", "release"}, m \in Region \cup Release
      PROVE  m.meta_end > mtail
  <2>1. Releases(graph_publish[i]) /\ m.meta_end \in Nat
    BY <1>4, Zenon DEF Releases, Region, Release
  <2>2. mtail < m.meta_end
    BY <1>1, <1>2, <1>4, <2>1, Zenon DEF FloorInv, MessageBounds, Released
  <2> QED
    BY <1>2, <2>1, <2>2, Zenon
<1> QED
  BY <1>1, <1>3, <1>4, MessagesAre, Zenon

-----------------------------------------------------------------------------
(* The theorems. *)

W == INSTANCE WellFoundedInduction

(* A set of natural numbers has a least one. *)
LEMMA LeastHolds == LeastNumber
<1> SUFFICES ASSUME NEW S \in SUBSET Nat, S # {} PROVE \E n \in S : \A m \in S : n <= m
  BY Zenon DEF LeastNumber
<1> DEFINE R == W!OpToRel(<, Nat)
<1>1. W!IsWellFoundedOn(R, Nat)
  BY W!NatLessThanWellFounded, Zenon
<1>2. \A a, b \in Nat : a < b => <<a, b>> \in R
  BY DEF W!OpToRel
<1> HIDE DEF R
<1>3. PICK x \in S : \A y \in S : ~ (<<y, x>> \in R)
  BY <1>1, W!WFMin, Zenon
<1>4. ASSUME NEW y \in S PROVE x <= y
  <2>1. x \in Nat /\ y \in Nat
    OBVIOUS
  <2>2. ~(y < x)
    BY <1>2, <1>3, <2>1, Zenon
  <2> QED
    BY <2>1, <2>2
<1> QED
  BY <1>4

(* What oldest_claimable() lets go is never needed: a work holds the whole
   iteration that the detector reported, for every window K and every
   history longer than two windows. *)
THEOREM WorksAreWhole == Spec => []WorksAreIterations
<1>1. Init => WholeInv
  BY WholeInit
<1>2. WholeInv /\ [Next]_vars => WholeInv'
  BY WholeStep, LeastHolds
<1>3. WholeInv => WorksAreIterations
  BY IterationsState
<1>4. Spec => []WholeInv
  BY <1>1, <1>2, PTL DEF Spec
<1> QED
  BY <1>3, <1>4, PTL

(* Every op that record_op appended is counted in total_processed or is in
   the pipeline, once, whatever the resets drop: for every size of the
   ring, the batches and the channels and every history of the detector. *)
THEOREM OpsAreCounted == Spec => []EveryOpCounted
<1>1. Init => CountInv
  BY CountInit, LeastHolds, Zenon
<1>2. CountInv /\ [Next]_vars => CountInv'
  BY CountStep, LeastHolds
<1>3. CountInv => EveryOpCounted
  BY CountedState, LeastHolds, Zenon
<1>4. Spec => []CountInv
  BY <1>1, <1>2, PTL DEF Spec
<1> QED
  BY <1>3, <1>4, PTL

(* What flush() waits for is enough: while a work, a region or a release is
   on its way, total_processed has not reached the op that completed it,
   since each channel keeps the commit marker of a batch behind what was
   cut from it. *)
THEOREM FlushIsSound == Spec => []FlushedMeansPublished
<1>1. Init => FlushInv
  BY FlushInit, LeastHolds
<1>2. FlushInv /\ [Next]_vars => FlushInv'
  BY FlushStep, LeastHolds
<1>3. FlushInv => FlushedMeansPublished
  BY FlushedState, LeastHolds, Zenon
<1>4. Spec => []FlushInv
  BY <1>1, <1>2, PTL DEF Spec
<1> QED
  BY <1>3, <1>4, PTL

(* The bounds of every buffer hold; the records of an op stay in the
   metadata log until the work it is in is released; every advance_tail
   moves the tail forward: for every size of the ring, the log, the batches
   and the channels, over every interleaving of record_op, dispatch_op and
   the four stages, resets and discarded regions included. *)
THEOREM LogIsSound == Spec => []MetaLogInv
<1>1. Init => MetaInv
  BY MetaInit, LeastHolds
<1>2. MetaInv /\ [Next]_vars => MetaInv'
  BY MetaStep, LeastHolds
<1>3. MetaInv => MetaLogInv
  BY TypesState, RecordsState, ReleasesState, LeastHolds, Zenon DEF MetaLogInv
<1>4. Spec => []MetaInv
  BY <1>1, <1>2, PTL DEF Spec
<1> QED
  BY <1>3, <1>4, PTL
=============================================================================
