--------------------------- MODULE DsaDescriptors ---------------------------
(***************************************************************************)
(* DsaCtxFactory (src/src/data_flow/dsa): the descriptors of a request,     *)
(* built when it is submitted and read by the device until it completes.    *)
(***************************************************************************)
EXTENDS DataFlow, SequencesExt

IsCopyWithCrcOk(op) == op.segs = 1 /\ ~op.overlap
NeedsCrcDesc(op) == op.crc /\ ~IsCopyWithCrcOk(op)

Copies(ops, i) ==
    [j \in 1 .. ops[i].segs |->
        [kind |-> IF ops[i].crc /\ IsCopyWithCrcOk(ops[i]) THEN "copy_with_crc" ELSE "copy",
         op |-> i, seg |-> j]]
CrcDesc(i) == [kind |-> "crc", op |-> i, seg |-> 0]
Fence == <<[kind |-> "fence", op |-> 0, seg |-> 0]>>
\* seg holds the length of the list behind the batch descriptor
Batch(n) == <<[kind |-> "batch", op |-> 0, seg |-> n]>>

\* Mutant: the checksums do not wait for the copies.
BuildMoveNoFence(ops) ==
    LET copies == FlattenSeq([i \in DOMAIN ops |-> Copies(ops, i)])
        crcs == SelectSeq([i \in DOMAIN ops |-> CrcDesc(i)], LAMBDA d : NeedsCrcDesc(ops[d.op]))
    IN  Batch(Len(copies) + Len(crcs)) \o copies \o crcs

BuildMoveCtx(ops) ==
    LET copies == FlattenSeq([i \in DOMAIN ops |-> Copies(ops, i)])
        crcs == SelectSeq([i \in DOMAIN ops |-> CrcDesc(i)], LAMBDA d : NeedsCrcDesc(ops[d.op]))
        desc_num == 1 + Len(copies) + Len(crcs) + (IF crcs # <<>> THEN 1 ELSE 0)
    IN  IF Len(ops) = 1 /\ ops[1].segs = 1 /\ (~ops[1].crc \/ ~ops[1].overlap)
        THEN copies
        ELSE Batch(desc_num - 1) \o copies \o (IF crcs # <<>> THEN Fence \o crcs ELSE <<>>)

BuildCrcCtx(ops) ==
    LET crcs == [i \in DOMAIN ops |-> CrcDesc(i)]
    IN  IF Len(ops) = 1 THEN crcs ELSE Batch(Len(ops)) \o crcs

BuildCtx(ops) == IF ops[1].type = "move" THEN BuildMoveCtx(ops) ELSE BuildCrcCtx(ops)

\* crc_results: the record with the checksum of operation i, 0 for none
CrcResult(descs, i) ==
    LET at == {k \in DOMAIN descs : descs[k].op = i /\ descs[k].kind \in {"crc", "copy_with_crc"}}
    IN  IF at = {} THEN 0 ELSE CHOOSE k \in at : TRUE

-----------------------------------------------------------------------------
\* The descriptors of what is in the hardware do what was asked: every segment is
\* copied once, the batch descriptor counts what follows, a wanted checksum is
\* computed of data that is in place, and the list fits its memory.
DescriptorsCorrect ==
    \A c \in Channels : \A o \in Objs : hw[c][o] = "wip" =>
        LET ops == Ops[c][obj[c][o].req]
            descs == BuildCtx(ops)
            CopiesOf(i) == {k \in DOMAIN descs : descs[k].op = i
                                                 /\ descs[k].kind \in {"copy", "copy_with_crc"}}
        IN  /\ Len(descs) <= MaxBatch
            /\ Len(descs) > 1 => descs[1].kind = "batch" /\ descs[1].seg = Len(descs) - 1
            /\ \A i \in DOMAIN ops :
                  LET r == CrcResult(descs, i)
                  IN  /\ ops[i].type = "move" =>
                            /\ Cardinality(CopiesOf(i)) = ops[i].segs
                            /\ {descs[k].seg : k \in CopiesOf(i)} = 1 .. ops[i].segs
                      /\ (r # 0) = (ops[i].crc \/ ops[i].type = "crc")
                      /\ r # 0 /\ descs[r].kind = "copy_with_crc" => IsCopyWithCrcOk(ops[i])
                      /\ r # 0 /\ descs[r].kind = "crc" => \A k \in CopiesOf(i) :
                            \E f \in k + 1 .. r - 1 : descs[f].kind = "fence"
=============================================================================
