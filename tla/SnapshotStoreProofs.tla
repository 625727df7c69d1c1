------------------------ MODULE SnapshotStoreProofs -------------------------
(* Proof of TypeOK and SnapshotsSound.  What a manifest holds follows from *)
(* its status and from where its deletion and its expiry are; what can be  *)
(* read of a chunk follows from who has it marked and who is uploading it. *)
EXTENDS SnapshotStore, FiniteSetTheorems, TLAPS

Maps(m) == \E c \in Chunks : <<m, c>> \in mapped
Reserves(m) == \E c \in Chunks : <<m, c>> \in reserved
Quiet(m) == \A c \in Chunks : upload[m][c] = "none"
Locked(m, c) == upload[m][c] \in {"found", "missing", "stored"}
Deleting(w) == gc[w].step \in {"delete", "row", "restore"}
Expiring(w) == gc[w].step \in {"listed", "counted", "released"}

\* A manifest refers to all of its chunks or to none.
WholeManifest(m) ==
  /\ \A c \in Chunks : <<m, c>> \in mapped => c \in Uses[m]
  /\ Maps(m) => \A c \in Uses[m] : <<m, c>> \in mapped

\* It holds no chunk once it has expired, unless it was written to while it
\* was being deleted.
ManifestSound(m) ==
  /\ Maps(m) => status[m] \in {"ready", "expired"}
  /\ Reserves(m) => status[m] \notin {"absent", "merging"}
  /\ status[m] = "absent" => Quiet(m)
  /\ commit[m] => status[m] = "uploading"
  /\ deletion[m] # "none" => status[m] \in {"uploading", "ready", "expired"}
  /\ m \notin late =>
       /\ Reserves(m) => status[m] = "uploading" /\ deletion[m] # "unreserved"
       /\ Maps(m) => status[m] = "ready" /\ deletion[m] \notin {"released", "unreserved"}

\* The collector that has marked a chunk is alone with it until it is done; a
\* stored object that it took away cannot come into use.
ChunkSound(c) ==
  /\ \A m, n \in Manifests : Locked(m, c) /\ Locked(n, c) => m = n
  /\ c \notin raced =>
       /\ \A m \in Manifests : <<m, c>> \in mapped \cup reserved => chunk[c] = "ready"
       /\ chunk[c] = "ready" => object[c] = "row"
       /\ \A m \in Manifests : upload[m][c] = "stored" =>
            /\ chunk[c] # "ready" /\ object[c] # "row"
            /\ object[c] # "other" =>
                 /\ chunk[c] = "deleting"
                 /\ \A w \in Collectors : c \in gc[w].todo => At(w, "restore") /\ c = Current(w)

CollectorSound(w) ==
  /\ Deleting(w) <=> gc[w].todo # {}
  /\ \A c \in gc[w].todo : chunk[c] = "deleting"
  /\ \A v \in Collectors : v # w => gc[v].todo \cap gc[w].todo = {}
  /\ Expiring(w) => gc[w].manifest \in Manifests /\ status[gc[w].manifest] \in {"ready", "expired"}
  /\ At(w, "released") => ~Maps(gc[w].manifest)

StoreInv ==
  /\ TypeOK
  /\ CountsAgree
  /\ \A m \in Manifests : WholeManifest(m) /\ ManifestSound(m)
  /\ \A c \in Chunks : ChunkSound(c)
  /\ \A w \in Collectors : CollectorSound(w)
-----------------------------------------------------------------------------
\* The reference counts look at the mappings only.
LEMMA CountsFrame ==
  ASSUME CountsAgree, mapped' = mapped, refCount' = refCount, raced \subseteq raced'
  PROVE  CountsAgree'
<1>1. \A c \in Chunks : References(c)' = References(c)
  BY DEF References
<1> QED
  BY <1>1 DEF CountsAgree

\* A step that gives manifest n nothing and leaves its handlers alone.
LEMMA ManifestFrame ==
  ASSUME NEW n \in Manifests, ManifestSound(n), Maps(n)' => Maps(n), Reserves(n)' => Reserves(n),
         status'[n] = status[n], commit'[n] = commit[n], deletion'[n] = deletion[n],
         n \in late => n \in late', status[n] = "absent" /\ Quiet(n) => Quiet(n)'
  PROVE  ManifestSound(n)'
BY DEF ManifestSound

\* Manifests look at the two tables, at the mappings for being whole.
LEMMA TablesFrame ==
  ASSUME StoreInv, mapped' = mapped
  PROVE  /\ \A n \in Manifests : WholeManifest(n)' /\ (Maps(n)' <=> Maps(n))
         /\ reserved' \subseteq reserved => \A n \in Manifests : Reserves(n)' => Reserves(n)
BY DEF StoreInv, WholeManifest, Maps, Reserves

\* A step that gives chunk d no new holder and no new upload, and leaves
\* those that have it marked alone.
LEMMA ChunkFrame ==
  ASSUME NEW d \in Chunks, ChunkSound(d), chunk'[d] = chunk[d], object'[d] = object[d],
         raced \subseteq raced',
         \A m \in Manifests : <<m, d>> \in mapped' \cup reserved' =>
           <<m, d>> \in mapped \cup reserved \/ chunk[d] = "ready" \/ d \in raced',
         \A m \in Manifests : /\ Locked(m, d)' => Locked(m, d)
                              /\ upload'[m][d] = "stored" => upload[m][d] = "stored",
         \A w \in Collectors : d \in gc'[w].todo =>
           gc'[w].todo = gc[w].todo /\ gc'[w].step = gc[w].step
  PROVE  ChunkSound(d)'
<1>1. \A w \in Collectors : d \in gc'[w].todo => (Current(w)' = Current(w) /\ (At(w, "restore")' <=> At(w, "restore")))
  BY DEF Current, At
<1> QED
  BY <1>1 DEF ChunkSound

\* A step in which the collectors only give up chunks.
LEMMA CollectorsFrame ==
  ASSUME StoreInv,
         \A v \in Collectors :
           /\ gc'[v].todo \subseteq gc[v].todo
           /\ \A c \in gc'[v].todo : chunk'[c] = "deleting"
           /\ Deleting(v)' <=> gc'[v].todo # {}
           /\ Expiring(v)' => /\ gc'[v].manifest \in Manifests
                              /\ status'[gc'[v].manifest] \in {"ready", "expired"}
           /\ At(v, "released")' => ~Maps(gc[v].manifest)'
  PROVE  \A v \in Collectors : CollectorSound(v)'
<1>1. \A v, w \in Collectors : v # w => gc'[v].todo \cap gc'[w].todo = {}
  BY DEF StoreInv, CollectorSound
<1> QED
  BY <1>1 DEF CollectorSound

\* The collectors do not notice what the others do to manifests and uploads.
LEMMA CollectorsIdle ==
  ASSUME StoreInv, gc' = gc, \A c \in Chunks : chunk[c] = "deleting" => chunk'[c] = "deleting",
         \A m \in Manifests : status[m] \in {"ready", "expired"} =>
           status'[m] \in {"ready", "expired"} /\ (Maps(m)' => Maps(m))
  PROVE  \A v \in Collectors : CollectorSound(v)'
<1>1. \A v \in Collectors : /\ gc[v].todo \subseteq Chunks
                            /\ (Deleting(v)' <=> Deleting(v)) /\ (Expiring(v)' <=> Expiring(v))
                            /\ (At(v, "released")' <=> At(v, "released")) /\ (At(v, "released") => Expiring(v))
  BY DEF StoreInv, TypeOK, Collector, Deleting, Expiring, At
<1>2. \A v \in Collectors : CollectorSound(v)
  BY DEF StoreInv
<1>3. ASSUME NEW v \in Collectors
      PROVE  /\ \A c \in gc'[v].todo : chunk'[c] = "deleting"
             /\ Deleting(v)' <=> gc'[v].todo # {}
             /\ Expiring(v)' => /\ gc'[v].manifest \in Manifests
                                /\ status'[gc'[v].manifest] \in {"ready", "expired"}
             /\ At(v, "released")' => ~Maps(gc[v].manifest)'
  BY <1>1, <1>2 DEF CollectorSound
<1> QED
  BY <1>3, CollectorsFrame

\* The places of a collector's loop.
LEMMA GotoFacts ==
  ASSUME TypeOK, NEW w \in Collectors, NEW st \in Steps, Goto(w, st)
  PROVE  /\ gc' \in [Collectors -> Collector]
         /\ gc'[w].step = st /\ gc'[w].todo = gc[w].todo /\ gc'[w].manifest = gc[w].manifest
         /\ \A v \in Collectors : v # w => gc'[v] = gc[v]
BY DEF TypeOK, Collector, Goto

LEMMA SetFacts ==
  ASSUME TypeOK, NEW w \in Collectors, NEW g \in Collector, gc' = [gc EXCEPT ![w] = g]
  PROVE  /\ gc' \in [Collectors -> Collector] /\ gc'[w] = g
         /\ \A v \in Collectors : v # w => gc'[v] = gc[v]
BY DEF TypeOK

\* The chunk whose turn it is, and what is left of the list after it.
LEMMA CurrentFacts ==
  ASSUME StoreInv, NEW w \in Collectors, Deleting(w)
  PROVE  /\ Current(w) \in gc[w].todo /\ Current(w) \in Chunks /\ chunk[Current(w)] = "deleting"
         /\ \A v \in Collectors : v # w => Current(w) \notin gc[v].todo
<1>1. gc[w].todo # {} /\ gc[w].todo \subseteq Chunks
  BY DEF StoreInv, CollectorSound, TypeOK, Collector
<1>2. Current(w) \in gc[w].todo
  BY <1>1 DEF Current
<1> QED
  BY <1>1, <1>2 DEF StoreInv, CollectorSound

LEMMA ContinueFacts ==
  ASSUME StoreInv, NEW w \in Collectors, Deleting(w), Continue(w)
  PROVE  /\ gc' \in [Collectors -> Collector] /\ gc'[w].todo = gc[w].todo \ {Current(w)}
         /\ ~Expiring(w)' /\ ~At(w, "released")' /\ ~At(w, "restore")' /\ (Deleting(w)' <=> gc'[w].todo # {})
         /\ \A v \in Collectors : v # w => gc'[v] = gc[v]
<1> DEFINE rest == gc[w].todo \ {Current(w)}
           g == IF rest = {} THEN IdleCollector
                ELSE [step |-> "delete", manifest |-> NoManifest, todo |-> rest]
<1>1. rest \subseteq Chunks
  BY DEF StoreInv, TypeOK, Collector
<1>2. /\ g \in Collector /\ g.todo = rest /\ g.step \in {"idle", "delete"}
      /\ g.step = "delete" <=> g.todo # {}
  BY <1>1 DEF Collector, IdleCollector, Steps
<1>3. gc' = [gc EXCEPT ![w] = g]
  BY DEF Continue
<1> HIDE DEF g
<1>4. gc' \in [Collectors -> Collector] /\ gc'[w] = g /\ \A v \in Collectors : v # w => gc'[v] = gc[v]
  BY <1>2, <1>3, SetFacts DEF StoreInv
<1> QED
  BY <1>2, <1>4 DEF Expiring, At, Deleting
-----------------------------------------------------------------------------
\* The store starts empty.
LEMMA StoreInit ==
  ASSUME StoreAssumption, Init
  PROVE  StoreInv
<1>1. TypeOK
  BY DEF Init, TypeOK, Collector, IdleCollector, Steps, StoreAssumption
<1>2. CountsAgree
  <2>1. \A c \in Chunks : References(c) = {}
    BY DEF Init, References
  <2> QED
    BY <2>1, FS_EmptySet DEF Init, CountsAgree
<1>3. \A m \in Manifests : WholeManifest(m) /\ ManifestSound(m)
  BY DEF Init, WholeManifest, ManifestSound, Maps, Reserves, Quiet
<1>4. \A c \in Chunks : ChunkSound(c)
  BY DEF Init, ChunkSound, Locked
<1>5. \A w \in Collectors : CollectorSound(w)
  BY DEF Init, CollectorSound, IdleCollector, Deleting, Expiring, At
<1> QED
  BY <1>1, <1>2, <1>3, <1>4, <1>5 DEF StoreInv

\* What a step of the upload of c for m leaves alone.
LEMMA UploadFrame ==
  ASSUME StoreInv, NEW m \in Manifests, NEW c \in Chunks,
         NEW st \in {"none", "accepted", "found", "missing", "stored"},
         upload' = [upload EXCEPT ![m][c] = st], status[m] # "absent"
  PROVE  /\ upload' \in [Manifests -> [Chunks -> {"none", "accepted", "found", "missing", "stored"}]]
         /\ upload'[m][c] = st
         /\ \A n \in Manifests, d \in Chunks : n # m \/ d # c => upload'[n][d] = upload[n][d]
         /\ \A n \in Manifests : status[n] = "absent" /\ Quiet(n) => Quiet(n)'
<1>1. /\ upload' \in [Manifests -> [Chunks -> {"none", "accepted", "found", "missing", "stored"}]]
      /\ upload'[m][c] = st
      /\ \A n \in Manifests, d \in Chunks : n # m \/ d # c => upload'[n][d] = upload[n][d]
  BY DEF StoreInv, TypeOK
<1> QED
  BY <1>1 DEF Quiet

\* An upload is under way only for a manifest that is being written or was.
LEMMA UploadStarted ==
  ASSUME StoreInv, NEW m \in Manifests, NEW c \in Chunks, upload[m][c] # "none"
  PROVE  status[m] # "absent"
BY DEF StoreInv, ManifestSound, Quiet

\* The request arrives, looks for the row and stores the object.
LEMMA UploadKeeps ==
  ASSUME StoreAssumption, StoreInv, NEW m \in Manifests, NEW c \in Chunks,
         upload_request(m, c) \/ upload_lookup(m, c) \/ upload_put(m, c)
  PROVE  StoreInv'
<1>1. /\ UNCHANGED <<status, mapped, reserved, chunk, refCount, versions, commit, deletion, gc, late,
                     stranded, faults>>
      /\ raced \subseteq raced' /\ raced' \subseteq raced \cup {c}
      /\ \/ object' = object \/ (object' = [object EXCEPT ![c] = "other"] /\ (chunk[c] = "ready" => c \in raced'))
  BY DEF upload_request, upload_lookup, upload_put, tables
<1>2. status[m] # "absent"
  BY UploadStarted DEF upload_request, upload_lookup, upload_put
<1>3. PICK st \in {"none", "accepted", "found", "missing", "stored"} :
        /\ upload' = [upload EXCEPT ![m][c] = st]
        /\ \/ st = "accepted"
           \/ st \in {"found", "missing"} /\ \A n \in Manifests : ~Locked(n, c)
           \/ st = "stored" /\ upload[m][c] = "missing" /\ object' = [object EXCEPT ![c] = "other"]
        /\ st # "stored" => object' = object
  BY DEF upload_request, upload_lookup, upload_put, Locked
<1>4. /\ upload' \in [Manifests -> [Chunks -> {"none", "accepted", "found", "missing", "stored"}]]
      /\ upload'[m][c] = st
      /\ \A n \in Manifests, d \in Chunks : n # m \/ d # c => upload'[n][d] = upload[n][d]
      /\ \A n \in Manifests : status[n] = "absent" /\ Quiet(n) => Quiet(n)'
  BY <1>2, <1>3, UploadFrame
<1>5. TypeOK'
  BY <1>1, <1>4 DEF StoreInv, TypeOK
<1>6. CountsAgree'
  BY <1>1, CountsFrame DEF StoreInv
<1>7. \A n \in Manifests : WholeManifest(n)' /\ ManifestSound(n)'
  BY <1>1, <1>4, TablesFrame, ManifestFrame DEF StoreInv
<1>8. ASSUME NEW d \in Chunks PROVE ChunkSound(d)'
  <2>1. CASE d # c
    <3>1. object'[d] = object[d]
      BY <1>1, <2>1 DEF StoreInv, TypeOK
    <3> QED
      BY <1>1, <1>4, <2>1, <3>1, ChunkFrame DEF StoreInv, Locked
  <2>2. CASE d = c
    <3>1. \A n1, n2 \in Manifests : Locked(n1, c)' /\ Locked(n2, c)' => n1 = n2
      BY <1>3, <1>4 DEF Locked, StoreInv, ChunkSound
    <3>2. c \notin raced' => /\ c \notin raced
                             /\ chunk[c] = "ready" => object'[c] = "row"
      BY <1>1 DEF StoreInv, TypeOK, ChunkSound
    <3>3. ASSUME c \notin raced', NEW n \in Manifests, upload'[n][c] = "stored"
          PROVE  /\ chunk[c] # "ready" /\ object'[c] # "row"
                 /\ object'[c] # "other" =>
                      /\ chunk[c] = "deleting"
                      /\ \A w \in Collectors : c \in gc[w].todo => At(w, "restore") /\ c = Current(w)
      <4>1. CASE st = "stored"
        BY <1>1, <1>3, <3>2, <3>3, <4>1 DEF StoreInv, TypeOK, ChunkSound
      <4>2. CASE st # "stored"
        BY <1>3, <1>4, <3>2, <3>3, <4>2 DEF StoreInv, ChunkSound
      <4> QED
        BY <4>1, <4>2
    <3> QED
      BY <1>1, <2>2, <3>1, <3>2, <3>3 DEF StoreInv, ChunkSound, At, Current
  <2> QED
    BY <2>1, <2>2
<1>9. \A v \in Collectors : CollectorSound(v)'
  BY <1>1, TablesFrame, CollectorsIdle
<1> QED
  BY <1>5, <1>6, <1>7, <1>8, <1>9 DEF StoreInv

\* A failed upload is forgotten, and with it the merge it was made for.
LEMMA RefusedKeeps ==
  ASSUME StoreInv, NEW m \in Manifests, NEW c \in Chunks, upload[m][c] # "none", Refused(m, c),
         UNCHANGED <<mapped, reserved, chunk, refCount, object, versions, commit, deletion, gc, raced,
                     late, stranded>>,
         faults' \in 0..MaxFaults
  PROVE  StoreInv'
<1>1. /\ upload' \in [Manifests -> [Chunks -> {"none", "accepted", "found", "missing", "stored"}]]
      /\ \A n \in Manifests, d \in Chunks : upload'[n][d] \in {"none", upload[n][d]}
      /\ status' \in [Manifests -> {"absent", "merging", "uploading", "ready", "expired"}]
      /\ \A n \in Manifests : n # m => status'[n] = status[n]
      /\ \/ status'[m] = status[m]
         \/ status[m] = "merging" /\ status'[m] = "absent" /\ \A d \in Chunks : upload'[m][d] = "none"
  <2>1. CASE status[m] = "merging"
    <3>1. /\ upload' = [upload EXCEPT ![m] = [d \in Chunks |-> "none"]]
          /\ status' = [status EXCEPT ![m] = "absent"]
      BY <2>1 DEF Refused
    <3>2. /\ \A d \in Chunks : upload'[m][d] = "none"
          /\ \A n \in Manifests : n # m => upload'[n] = upload[n]
          /\ upload' \in [Manifests -> [Chunks -> {"none", "accepted", "found", "missing", "stored"}]]
      BY <3>1 DEF StoreInv, TypeOK
    <3>3. /\ status' \in [Manifests -> {"absent", "merging", "uploading", "ready", "expired"}]
          /\ \A n \in Manifests : n # m => status'[n] = status[n]
          /\ status'[m] = "absent"
      BY <3>1 DEF StoreInv, TypeOK
    <3> QED
      BY <2>1, <3>2, <3>3
  <2>2. CASE status[m] # "merging"
    <3>1. upload' = [upload EXCEPT ![m][c] = "none"] /\ status' = status
      BY <2>2 DEF Refused, Served
    <3>2. /\ upload' \in [Manifests -> [Chunks -> {"none", "accepted", "found", "missing", "stored"}]]
          /\ upload'[m][c] = "none"
          /\ \A n \in Manifests, d \in Chunks : n # m \/ d # c => upload'[n][d] = upload[n][d]
      BY <3>1, UploadStarted, UploadFrame
    <3> QED
      BY <3>1, <3>2 DEF StoreInv, TypeOK
  <2> QED
    BY <2>1, <2>2
<1>2. TypeOK'
  BY <1>1 DEF StoreInv, TypeOK
<1>3. CountsAgree'
  BY CountsFrame DEF StoreInv
<1>4. ASSUME NEW n \in Manifests PROVE WholeManifest(n)' /\ ManifestSound(n)'
  <2>1. WholeManifest(n)' /\ (Maps(n)' => Maps(n)) /\ (Reserves(n)' => Reserves(n))
    BY TablesFrame
  <2>2. Quiet(n) => Quiet(n)'
    BY <1>1 DEF Quiet
  <2>3. ManifestSound(n)
    BY DEF StoreInv
  <2>4. CASE status'[n] = status[n]
    BY <2>1, <2>2, <2>3, <2>4, ManifestFrame
  <2>5. CASE status'[n] # status[n]
    <3>1. status[n] = "merging" /\ status'[n] = "absent" /\ Quiet(n)'
      BY <1>1, <2>5 DEF Quiet
    <3> QED
      BY <2>1, <2>3, <3>1 DEF ManifestSound
  <2> QED
    BY <2>4, <2>5
<1>5. \A d \in Chunks : ChunkSound(d)'
  BY <1>1, ChunkFrame DEF StoreInv, Locked
<1>6. \A v \in Collectors : CollectorSound(v)'
  BY <1>1, TablesFrame, CollectorsIdle
<1> QED
  BY <1>2, <1>3, <1>4, <1>5, <1>6 DEF StoreInv

\* A reservation is made for a manifest that is being written, or recorded as
\* late.
LEMMA ReserveFacts ==
  ASSUME StoreInv, NEW m \in Manifests, NEW c \in Chunks, Reserve(m, c), upload[m][c] # "none",
         UNCHANGED <<status, mapped, commit, deletion>>,
         \A n \in Manifests : status[n] = "absent" /\ Quiet(n) => Quiet(n)'
  PROVE  /\ reserved' \in SUBSET (Manifests \X Chunks) /\ late' \in SUBSET Manifests
         /\ reserved' \subseteq reserved \cup {<<m, c>>}
         /\ status[m] = "merging" => reserved' = reserved
         /\ \A n \in Manifests : WholeManifest(n)' /\ ManifestSound(n)'
<1>1. /\ reserved' \in SUBSET (Manifests \X Chunks) /\ late' \in SUBSET Manifests
      /\ reserved' \subseteq reserved \cup {<<m, c>>} /\ late \subseteq late'
      /\ status[m] = "merging" => reserved' = reserved
      /\ status[m] \in {"expired", "ready"} \/ deletion[m] = "unreserved" => m \in late'
  BY DEF Reserve, StoreInv, TypeOK
<1>2. status[m] \in {"merging", "uploading", "ready", "expired"}
  BY UploadStarted DEF StoreInv, TypeOK
<1>3. ASSUME NEW n \in Manifests PROVE WholeManifest(n)' /\ ManifestSound(n)'
  <2>1. WholeManifest(n)' /\ (Maps(n)' => Maps(n)) /\ ManifestSound(n)
    BY TablesFrame DEF StoreInv
  <2>2. CASE n # m \/ status[m] = "merging"
    <3>1. Reserves(n)' => Reserves(n)
      BY <1>1, <2>2 DEF Reserves
    <3> QED
      BY <1>1, <2>1, <3>1, ManifestFrame
  <2>3. CASE n = m /\ status[m] # "merging"
    BY <1>1, <1>2, <2>1, <2>3 DEF ManifestSound
  <2> QED
    BY <2>2, <2>3
<1> QED
  BY <1>1, <1>3

\* The end of an upload: the found row or the new one is reserved.
LEMMA UploadEndKeeps ==
  ASSUME StoreAssumption, StoreInv, NEW m \in Manifests, NEW c \in Chunks,
         upload_reserve(m, c) \/ upload_insert(m, c) \/ upload_fails(m, c)
  PROVE  StoreInv'
<1>1. CASE \/ upload_fails(m, c)
           \/ upload_insert(m, c) /\ chunk[c] # "absent"
  <2>1. /\ upload[m][c] # "none" /\ Refused(m, c)
        /\ UNCHANGED <<mapped, reserved, chunk, refCount, object, versions, commit, deletion, gc,
                       raced, late, stranded>>
    BY <1>1 DEF upload_fails, upload_insert, StoreInv, TypeOK
  <2>2. faults' \in 0..MaxFaults
    BY <1>1 DEF upload_fails, upload_insert, Fault, StoreInv, TypeOK, StoreAssumption
  <2> QED
    BY <2>1, <2>2, RefusedKeeps
<1>2. CASE upload_reserve(m, c) \/ (upload_insert(m, c) /\ chunk[c] = "absent")
  <2>1. /\ upload[m][c] \in {"found", "stored"} /\ upload' = [upload EXCEPT ![m][c] = "none"]
        /\ UNCHANGED <<status, mapped, refCount, versions, commit, deletion, gc, stranded, faults>>
        /\ raced \subseteq raced' /\ raced' \subseteq raced \cup {c}
        /\ (UNCHANGED <<reserved, late>>) \/ Reserve(m, c)
    BY <1>2 DEF upload_reserve, upload_insert, Served
  <2>2. /\ upload' \in [Manifests -> [Chunks -> {"none", "accepted", "found", "missing", "stored"}]]
        /\ upload'[m][c] = "none"
        /\ \A n \in Manifests, d \in Chunks : n # m \/ d # c => upload'[n][d] = upload[n][d]
        /\ \A n \in Manifests : status[n] = "absent" /\ Quiet(n) => Quiet(n)'
    BY <2>1, UploadStarted, UploadFrame
  <2>3. /\ reserved' \in SUBSET (Manifests \X Chunks) /\ late' \in SUBSET Manifests
        /\ reserved' \subseteq reserved \cup {<<m, c>>}
        /\ status[m] = "merging" => reserved' = reserved
        /\ \A n \in Manifests : WholeManifest(n)' /\ ManifestSound(n)'
    <3>1. CASE UNCHANGED <<reserved, late>>
      BY <2>1, <2>2, <3>1, TablesFrame, ManifestFrame DEF StoreInv, TypeOK
    <3>2. CASE Reserve(m, c)
      BY <2>1, <2>2, <3>2, ReserveFacts
    <3> QED
      BY <2>1, <3>1, <3>2
  <2>4. /\ chunk' \in [Chunks -> {"absent", "ready", "deleting"}]
        /\ object' \in [Chunks -> {"none", "row", "other"}]
        /\ \A d \in Chunks : d # c => chunk'[d] = chunk[d] /\ object'[d] = object[d]
    BY <1>2 DEF upload_reserve, upload_insert, StoreInv, TypeOK
  <2>5. TypeOK'
    BY <2>1, <2>2, <2>3, <2>4 DEF StoreInv, TypeOK
  <2>6. CountsAgree'
    BY <2>1, CountsFrame DEF StoreInv
  <2>7. ASSUME NEW d \in Chunks, d # c PROVE ChunkSound(d)'
    <3>1. \A n \in Manifests : <<n, d>> \in mapped' \cup reserved' => <<n, d>> \in mapped \cup reserved
      BY <2>1, <2>3, <2>7
    <3> QED
      BY <2>1, <2>2, <2>4, <2>7, <3>1, ChunkFrame DEF StoreInv, Locked
  <2>8. ChunkSound(c)'
    <3>1. CASE upload_reserve(m, c)
      <4>1. /\ chunk' = chunk /\ object' = object
            /\ chunk[c] = "absent" => reserved' = reserved
            /\ chunk[c] = "deleting" /\ status[m] # "merging" => c \in raced'
        BY <3>1 DEF upload_reserve
      <4>2. \A n \in Manifests : <<n, c>> \in mapped' \cup reserved' =>
              <<n, c>> \in mapped \cup reserved \/ chunk[c] = "ready" \/ c \in raced'
        BY <2>1, <2>3, <4>1 DEF StoreInv, TypeOK
      <4> QED
        BY <2>1, <2>2, <4>1, <4>2, ChunkFrame DEF StoreInv, Locked
    <3>2. CASE upload_insert(m, c) /\ chunk[c] = "absent"
      <4>1. /\ upload[m][c] = "stored" /\ chunk'[c] = "ready" /\ raced' = raced
            /\ object'[c] = IF object[c] = "other" THEN "row" ELSE object[c]
        BY <3>2 DEF upload_insert, StoreInv, TypeOK
      <4>2. \A n1, n2 \in Manifests : Locked(n1, c)' /\ Locked(n2, c)' => n1 = n2
        BY <2>1, <2>2 DEF Locked, StoreInv, ChunkSound
      <4>3. \A n \in Manifests : upload'[n][c] # "stored"
        BY <2>2, <4>1 DEF Locked, StoreInv, ChunkSound
      <4>4. c \notin raced => object'[c] = "row"
        BY <3>2, <4>1 DEF StoreInv, ChunkSound
      <4> QED
        BY <4>1, <4>2, <4>3, <4>4 DEF ChunkSound
    <3> QED
      BY <1>2, <3>1, <3>2
  <2>9. \A v \in Collectors : CollectorSound(v)'
    <3>1. \A d \in Chunks : chunk[d] = "deleting" => chunk'[d] = "deleting"
      BY <1>2 DEF upload_reserve, upload_insert, StoreInv, TypeOK
    <3> QED
      BY <2>1, <3>1, TablesFrame, CollectorsIdle
  <2> QED
    BY <2>3, <2>5, <2>6, <2>7, <2>8, <2>9 DEF StoreInv
<1> QED
  BY <1>1, <1>2

\* Steps on the row of one manifest that add no mapping: what they have to
\* say of that manifest.
LEMMA RowStep ==
  ASSUME StoreInv, NEW m \in Manifests, TypeOK', ManifestSound(m)',
         UNCHANGED <<mapped, refCount, chunk, object, gc, raced>>, late \subseteq late',
         \A p \in reserved' : p \in reserved \/ chunk[p[2]] = "ready",
         \A n \in Manifests : n # m =>
           /\ status'[n] = status[n] /\ commit'[n] = commit[n] /\ deletion'[n] = deletion[n]
           /\ Reserves(n)' => Reserves(n)
           /\ \A d \in Chunks : upload'[n][d] = upload[n][d],
         \A d \in Chunks : upload'[m][d] \in {"none", "accepted", upload[m][d]},
         status[m] \in {"ready", "expired"} => status'[m] \in {"ready", "expired"}
  PROVE  StoreInv'
<1>1. CountsAgree'
  BY CountsFrame DEF StoreInv
<1>2. ASSUME NEW n \in Manifests PROVE WholeManifest(n)' /\ ManifestSound(n)'
  <2>1. WholeManifest(n)' /\ (Maps(n)' => Maps(n)) /\ ManifestSound(n)
    BY TablesFrame DEF StoreInv
  <2>2. CASE n # m
    <3>1. Quiet(n) => Quiet(n)'
      BY <2>2 DEF Quiet
    <3> QED
      BY <2>1, <2>2, <3>1, ManifestFrame
  <2> QED
    BY <2>1, <2>2
<1>3. ASSUME NEW d \in Chunks PROVE ChunkSound(d)'
  <2>1. \A n \in Manifests : <<n, d>> \in mapped' \cup reserved' =>
          <<n, d>> \in mapped \cup reserved \/ chunk[d] = "ready"
    OBVIOUS
  <2>2. \A n \in Manifests : /\ Locked(n, d)' => Locked(n, d)
                             /\ upload'[n][d] = "stored" => upload[n][d] = "stored"
    BY DEF Locked
  <2> QED
    BY <2>1, <2>2, ChunkFrame DEF StoreInv
<1>4. \A v \in Collectors : CollectorSound(v)'
  BY TablesFrame, CollectorsIdle
<1> QED
  BY <1>1, <1>2, <1>3, <1>4 DEF StoreInv

\* An upload or a merge begins, a commit checks its chunks, a version is made.
LEMMA BeginKeeps ==
  ASSUME StoreAssumption, StoreInv, NEW m \in Manifests,
         \/ begin_snapshot_upload(m) \/ commit_check(m) \/ begin_merge(m) \/ create_project_version(m)
  PROVE  StoreInv'
<1>1. /\ UNCHANGED <<mapped, chunk, refCount, object, deletion, gc, raced, late, stranded, faults>>
      /\ TypeOK /\ ManifestSound(m)
  BY DEF begin_snapshot_upload, commit_check, begin_merge, create_project_version, tables, handlers, StoreInv
<1>2. Maps(m)' <=> Maps(m)
  BY <1>1 DEF Maps
<1>3. CASE begin_snapshot_upload(m)
  <2>1. /\ status[m] = "absent" /\ status' = [status EXCEPT ![m] = "uploading"]
        /\ reserved' = reserved \cup {p \in ChunksOf(m) : chunk[p[2]] = "ready"}
        /\ UNCHANGED <<versions, upload, commit>>
    BY <1>3 DEF begin_snapshot_upload, handlers
  <2>2. ChunksOf(m) \subseteq {m} \X Chunks
    BY DEF ChunksOf, StoreAssumption
  <2>3. TypeOK'
    BY <1>1, <2>1, <2>2 DEF TypeOK
  <2>4. status'[m] = "uploading" /\ \A n \in Manifests : n # m => status'[n] = status[n]
    BY <1>1, <2>1 DEF TypeOK
  <2>5. \A n \in Manifests : n # m => (Reserves(n)' => Reserves(n))
    BY <2>1, <2>2 DEF Reserves
  <2>6. ManifestSound(m)'
    BY <1>1, <1>2, <2>1, <2>4 DEF ManifestSound
  <2> QED
    BY <1>1, <2>1, <2>3, <2>4, <2>5, <2>6, RowStep
<1>4. CASE commit_check(m)
  <2>1. /\ status[m] = "uploading" /\ commit' = [commit EXCEPT ![m] = TRUE]
        /\ UNCHANGED <<status, reserved, versions, upload>>
    BY <1>4 DEF commit_check, tables
  <2>2. TypeOK' /\ \A n \in Manifests : n # m => commit'[n] = commit[n]
    BY <1>1, <2>1 DEF TypeOK
  <2>3. \A n \in Manifests : Reserves(n)' <=> Reserves(n)
    BY <2>1 DEF Reserves
  <2>4. ManifestSound(m)'
    BY <1>1, <1>2, <2>1, <2>3 DEF ManifestSound
  <2> QED
    BY <1>1, <2>1, <2>2, <2>3, <2>4, RowStep
<1>5. CASE begin_merge(m)
  <2>1. PICK merged \in SUBSET Uses[m] :
          upload' = [upload EXCEPT ![m] = [c \in Chunks |-> IF c \in merged THEN "accepted" ELSE "none"]]
    BY <1>5 DEF begin_merge
  <2>2. /\ status[m] = "absent" /\ status' = [status EXCEPT ![m] = "merging"]
        /\ UNCHANGED <<reserved, versions, commit>>
    BY <1>5 DEF begin_merge
  <2>3. /\ status' \in [Manifests -> {"absent", "merging", "uploading", "ready", "expired"}]
        /\ status'[m] = "merging" /\ \A n \in Manifests : n # m => status'[n] = status[n]
    BY <1>1, <2>2 DEF TypeOK
  <2>4. /\ upload' \in [Manifests -> [Chunks -> {"none", "accepted", "found", "missing", "stored"}]]
        /\ \A d \in Chunks : upload'[m][d] \in {"none", "accepted"}
        /\ \A n \in Manifests : n # m => upload'[n] = upload[n]
    BY <1>1, <2>1 DEF TypeOK
  <2>5. TypeOK'
    BY <1>1, <2>2, <2>3, <2>4 DEF TypeOK
  <2>6. \A n \in Manifests : Reserves(n)' <=> Reserves(n)
    BY <2>2 DEF Reserves
  <2>7. ManifestSound(m)'
    BY <1>1, <1>2, <2>2, <2>3, <2>6 DEF ManifestSound
  <2> QED
    BY <1>1, <2>2, <2>3, <2>4, <2>5, <2>6, <2>7, RowStep
<1>6. CASE create_project_version(m)
  <2>1. UNCHANGED <<status, reserved, upload, commit>> /\ versions' = versions \cup {m}
    BY <1>6 DEF create_project_version, handlers
  <2>2. TypeOK'
    BY <1>1, <2>1 DEF TypeOK
  <2>3. \A n \in Manifests : Reserves(n)' <=> Reserves(n)
    BY <2>1 DEF Reserves
  <2>4. Quiet(m)' <=> Quiet(m)
    BY <2>1 DEF Quiet
  <2>5. ManifestSound(m)'
    BY <1>1, <1>2, <2>1, <2>3, <2>4 DEF ManifestSound
  <2> QED
    BY <1>1, <2>1, <2>2, <2>3, <2>5, RowStep
<1> QED
  BY <1>3, <1>4, <1>5, <1>6

\* Steps of a deletion or of the collector that release no reference.
LEMMA ExpireKeeps ==
  ASSUME StoreAssumption, StoreInv, NEW m \in Manifests,
         \/ delete_read(m) \/ delete_count(m) \/ delete_unreserve(m) \/ delete_expire(m) \/ delete_fails(m)
         \/ \E w \in Collectors : gc_abandon(w, m)
  PROVE  StoreInv'
<1>1. /\ UNCHANGED <<mapped, chunk, refCount, object, versions, upload, commit, gc, raced, late, stranded>>
      /\ TypeOK /\ ManifestSound(m) /\ reserved' \subseteq reserved
  BY DEF delete_read, delete_count, delete_unreserve, delete_expire, delete_fails, gc_abandon, tables,
         handlers, StoreInv
<1>2. faults' \in 0..MaxFaults
  BY <1>1 DEF delete_read, delete_count, delete_unreserve, delete_expire, delete_fails, gc_abandon, Fault,
              TypeOK, StoreAssumption
<1>3. /\ deletion' \in [Manifests -> {"none", "ready", "counted", "released", "unreserved"}]
      /\ \A n \in Manifests : n # m => deletion'[n] = deletion[n]
  BY <1>1 DEF delete_read, delete_count, delete_unreserve, delete_expire, delete_fails, gc_abandon,
              handlers, TypeOK
<1>4. /\ status' \in [Manifests -> {"absent", "merging", "uploading", "ready", "expired"}]
      /\ \A n \in Manifests : n # m => status'[n] = status[n]
  BY <1>1 DEF delete_read, delete_count, delete_unreserve, delete_expire, delete_fails, gc_abandon,
              tables, TypeOK
<1>5. TypeOK'
  BY <1>1, <1>2, <1>3, <1>4 DEF TypeOK
<1>6. /\ (Maps(m)' <=> Maps(m)) /\ (Maps(m) <=> Counts(m)) /\ (Quiet(m)' <=> Quiet(m))
      /\ \A n \in Manifests : Reserves(n)' => Reserves(n)
  BY <1>1 DEF Maps, Counts, Quiet, Reserves
<1>7. ManifestSound(m)' /\ (status[m] \in {"ready", "expired"} => status'[m] \in {"ready", "expired"})
  <2>1. CASE delete_read(m)
    <3>1. /\ status' = status /\ reserved' = reserved /\ status[m] \in {"uploading", "ready", "expired"}
          /\ deletion'[m] = IF status[m] = "ready" THEN "ready" ELSE "released"
      BY <1>1, <2>1 DEF delete_read, tables, TypeOK
    <3> QED
      BY <1>1, <1>6, <3>1 DEF ManifestSound
  <2>2. CASE delete_count(m)
    <3>1. /\ status' = status /\ reserved' = reserved /\ deletion[m] = "ready"
          /\ deletion'[m] = IF Counts(m) THEN "counted" ELSE "released"
      BY <1>1, <2>2 DEF delete_count, tables, TypeOK
    <3> QED
      BY <1>1, <1>6, <3>1 DEF ManifestSound
  <2>3. CASE delete_unreserve(m)
    <3>1. /\ status' = status /\ deletion[m] = "released" /\ deletion'[m] = "unreserved" /\ ~Reserves(m)'
      BY <1>1, <2>3 DEF delete_unreserve, TypeOK, Reserves
    <3> QED
      BY <1>1, <1>6, <3>1 DEF ManifestSound
  <2>4. CASE delete_expire(m)
    <3>1. /\ status'[m] = "expired" /\ deletion[m] = "unreserved" /\ deletion'[m] = "none" /\ ~commit[m]
      BY <1>1, <2>4 DEF delete_expire, TypeOK
    <3> QED
      BY <1>1, <1>6, <3>1 DEF ManifestSound
  <2>5. CASE delete_fails(m)
    <3>1. status' = status /\ deletion'[m] = "none"
      BY <1>1, <2>5 DEF delete_fails, tables, TypeOK
    <3> QED
      BY <1>1, <1>6, <3>1 DEF ManifestSound
  <2>6. CASE \E w \in Collectors : gc_abandon(w, m)
    <3>1. /\ status[m] = "uploading" /\ status'[m] = "expired" /\ ~commit[m] /\ deletion' = deletion
          /\ ~Reserves(m)'
      BY <1>1, <2>6 DEF gc_abandon, handlers, TypeOK, Reserves
    <3> QED
      BY <1>1, <1>6, <3>1 DEF ManifestSound
  <2> QED
    BY <2>1, <2>2, <2>3, <2>4, <2>5, <2>6
<1> QED
  BY <1>1, <1>3, <1>4, <1>5, <1>6, <1>7, RowStep
-----------------------------------------------------------------------------
\* A manifest that becomes ready adds one reference to each of its chunks.
LEMMA ReadyCounts ==
  ASSUME StoreAssumption, StoreInv, NEW m \in Manifests, ~Maps(m), MakeReady(m)
  PROVE  /\ refCount' \in [Chunks -> Nat] /\ mapped' \in SUBSET (Manifests \X Chunks)
         /\ CountsAgree'
         /\ raced \subseteq raced' /\ raced' \subseteq Chunks
         /\ \A n \in Manifests : WholeManifest(n)' /\ (n # m => (Maps(n)' <=> Maps(n)))
<1>1. /\ mapped' = mapped \cup ({m} \X Uses[m]) /\ Uses[m] \subseteq Chunks
      /\ raced' = raced \cup {c \in Uses[m] : chunk[c] = "deleting"}
  BY DEF MakeReady, ChunksOf, StoreAssumption
<1>2. refCount' \in [Chunks -> Nat] /\ \A c \in Chunks : refCount'[c] = refCount[c] + (IF c \in Uses[m] THEN 1 ELSE 0)
  BY DEF MakeReady, StoreInv, TypeOK
<1>3. ASSUME NEW c \in Chunks
      PROVE  /\ refCount'[c] <= Cardinality(References(c)')
             /\ c \notin raced' => refCount'[c] = Cardinality(References(c)')
  <2>1. IsFiniteSet(References(c)) /\ m \notin References(c)
    BY FS_Subset DEF References, Maps, StoreAssumption
  <2>2. Cardinality(References(c)) \in Nat
    BY <2>1, FS_CardinalityType
  <2>3. /\ refCount[c] \in Nat /\ refCount[c] <= Cardinality(References(c))
        /\ c \notin raced => refCount[c] = Cardinality(References(c))
    BY DEF StoreInv, CountsAgree, TypeOK
  <2>4. CASE c \in Uses[m]
    <3>1. References(c)' = References(c) \cup {m}
      BY <1>1, <2>4 DEF References
    <3>2. Cardinality(References(c)') = Cardinality(References(c)) + 1
      BY <2>1, <3>1, FS_AddElement
    <3> QED
      BY <1>1, <1>2, <2>2, <2>3, <2>4, <3>2
  <2>5. CASE c \notin Uses[m]
    <3>1. References(c)' = References(c)
      BY <1>1, <2>5 DEF References
    <3> QED
      BY <1>1, <1>2, <2>2, <2>3, <2>5, <3>1
  <2> QED
    BY <2>4, <2>5
<1>4. CountsAgree'
  BY <1>3 DEF CountsAgree
<1>5. ASSUME NEW n \in Manifests PROVE WholeManifest(n)' /\ (n # m => (Maps(n)' <=> Maps(n)))
  <2>1. WholeManifest(n)
    BY DEF StoreInv
  <2>2. CASE n # m
    BY <1>1, <2>1, <2>2 DEF WholeManifest, Maps, StoreAssumption
  <2>3. CASE n = m
    BY <1>1, <2>3 DEF WholeManifest, Maps, StoreAssumption
  <2> QED
    BY <2>2, <2>3
<1>6. mapped' \in SUBSET (Manifests \X Chunks)
  BY <1>1 DEF StoreInv, TypeOK
<1> QED
  BY <1>1, <1>2, <1>4, <1>5, <1>6 DEF StoreInv, TypeOK

\* A release takes one reference from each chunk, or records a repeated one.
LEMMA ReleaseCounts ==
  ASSUME StoreAssumption, StoreInv, NEW m \in Manifests, Release(m)
  PROVE  /\ refCount' \in [Chunks -> Nat] /\ mapped' \subseteq mapped
         /\ CountsAgree'
         /\ raced \subseteq raced' /\ raced' \subseteq Chunks
         /\ \A n \in Manifests : WholeManifest(n)' /\ (Maps(n)' <=> n # m /\ Maps(n))
<1>1. /\ mapped' = mapped \ ({m} \X Chunks) /\ Uses[m] \subseteq Chunks
      /\ raced' = IF Maps(m) THEN raced ELSE raced \cup Uses[m]
  BY DEF Release, Counts, Maps, StoreAssumption
<1>2. /\ refCount' \in [Chunks -> Nat]
      /\ \A c \in Chunks : refCount'[c] = IF c \in Uses[m] /\ refCount[c] > 0 THEN refCount[c] - 1 ELSE refCount[c]
  BY DEF Release, LessReferences, StoreInv, TypeOK
<1>3. ASSUME NEW c \in Chunks
      PROVE  /\ refCount'[c] <= Cardinality(References(c)')
             /\ c \notin raced' => refCount'[c] = Cardinality(References(c)')
  <2>1. IsFiniteSet(References(c)) /\ References(c)' = References(c) \ {m}
    BY <1>1, FS_Subset DEF References, StoreAssumption
  <2>2. Cardinality(References(c)) \in Nat
    BY <2>1, FS_CardinalityType
  <2>3. /\ refCount[c] \in Nat /\ refCount[c] <= Cardinality(References(c))
        /\ c \notin raced => refCount[c] = Cardinality(References(c))
    BY DEF StoreInv, CountsAgree, TypeOK
  <2>4. CASE m \in References(c)
    <3>1. Maps(m) /\ c \in Uses[m]
      BY <2>4 DEF References, Maps, StoreInv, WholeManifest
    <3>2. Cardinality(References(c)') = Cardinality(References(c)) - 1
      BY <2>1, <2>4, FS_RemoveElement
    <3>3. Cardinality(References(c)') \in Nat
      BY <2>1, FS_Subset, FS_CardinalityType
    <3> QED
      BY <1>1, <1>2, <2>2, <2>3, <3>1, <3>2, <3>3
  <2>5. CASE m \notin References(c)
    <3>1. References(c)' = References(c)
      BY <2>1, <2>5
    <3>2. Maps(m) => c \notin Uses[m]
      BY <2>5 DEF References, StoreInv, WholeManifest
    <3> QED
      BY <1>1, <1>2, <2>2, <2>3, <3>1, <3>2
  <2> QED
    BY <2>4, <2>5
<1>4. CountsAgree'
  BY <1>3 DEF CountsAgree
<1>5. ASSUME NEW n \in Manifests PROVE WholeManifest(n)' /\ (Maps(n)' <=> n # m /\ Maps(n))
  <2>1. WholeManifest(n)
    BY DEF StoreInv
  <2>2. CASE n # m
    BY <1>1, <2>1, <2>2 DEF WholeManifest, Maps, StoreAssumption
  <2>3. CASE n = m
    BY <1>1, <2>3 DEF WholeManifest, Maps, StoreAssumption
  <2> QED
    BY <2>2, <2>3
<1> QED
  BY <1>1, <1>2, <1>4, <1>5 DEF StoreInv, TypeOK

\* A commit or a merge makes the manifest ready, or gives up.
LEMMA ReadyKeeps ==
  ASSUME StoreAssumption, StoreInv, NEW m \in Manifests,
         commit_snapshot(m) \/ create_ready_manifest(m)
  PROVE  StoreInv'
<1>1. /\ UNCHANGED <<chunk, object, versions, upload, deletion, gc, stranded, faults>>
      /\ TypeOK /\ ManifestSound(m) /\ late \subseteq late' /\ reserved' \subseteq reserved
      /\ \A n \in Manifests : Quiet(n)' <=> Quiet(n)
  BY DEF commit_snapshot, create_ready_manifest, handlers, StoreInv, Quiet
<1>2. \A n \in Manifests : Reserves(n)' => Reserves(n)
  BY <1>1 DEF Reserves
<1>3. CASE MakeReady(m) /\ \A c \in Uses[m] : chunk[c] # "absent"
  <2>1. /\ status[m] \in {"uploading", "merging"} /\ ~Reserves(m)'
        /\ status[m] = "merging" => deletion[m] = "none"
        /\ deletion[m] # "none" => m \in late'
    <3>1. CASE commit_snapshot(m)
      <4>1. status[m] = "uploading"
        BY <1>1, <3>1 DEF commit_snapshot, ManifestSound
      <4>2. /\ reserved' = reserved \ ({m} \X Chunks)
            /\ late' = IF deletion[m] # "none" THEN late \cup {m} ELSE late
        BY <1>3, <3>1 DEF commit_snapshot
      <4>3. ~Reserves(m)'
        BY <4>2 DEF Reserves
      <4> QED
        BY <4>1, <4>2, <4>3
    <3>2. CASE create_ready_manifest(m)
      <4>1. status[m] = "merging" /\ reserved' = reserved
        BY <3>2 DEF create_ready_manifest
      <4> QED
        BY <1>1, <1>2, <4>1 DEF ManifestSound
    <3> QED
      BY <3>1, <3>2
  <2>2. /\ commit' \in [Manifests -> BOOLEAN] /\ ~commit'[m] /\ late' \subseteq Manifests
        /\ \A n \in Manifests : n # m => commit'[n] = commit[n]
    <3>1. CASE commit_snapshot(m)
      <4>1. /\ commit' = [commit EXCEPT ![m] = FALSE]
            /\ late' = IF deletion[m] # "none" THEN late \cup {m} ELSE late
        BY <1>3, <3>1 DEF commit_snapshot
      <4> QED
        BY <1>1, <4>1 DEF TypeOK
    <3>2. CASE create_ready_manifest(m)
      <4>1. status[m] = "merging" /\ commit' = commit /\ late' = late
        BY <3>2 DEF create_ready_manifest, handlers
      <4> QED
        BY <1>1, <4>1 DEF TypeOK, ManifestSound
    <3> QED
      BY <3>1, <3>2
  <2>3. /\ status' \in [Manifests -> {"absent", "merging", "uploading", "ready", "expired"}]
        /\ status'[m] = "ready" /\ \A n \in Manifests : n # m => status'[n] = status[n]
    BY <1>1, <1>3 DEF MakeReady, TypeOK
  <2>4. ~Maps(m)
    BY <1>1, <2>1 DEF ManifestSound
  <2>5. /\ refCount' \in [Chunks -> Nat] /\ mapped' \in SUBSET (Manifests \X Chunks)
        /\ CountsAgree'
        /\ raced \subseteq raced' /\ raced' \subseteq Chunks
        /\ \A n \in Manifests : WholeManifest(n)' /\ (n # m => (Maps(n)' <=> Maps(n)))
    BY <1>3, <2>4, ReadyCounts
  <2>6. TypeOK'
    BY <1>1, <2>2, <2>3, <2>5 DEF TypeOK
  <2>7. ASSUME NEW n \in Manifests PROVE ManifestSound(n)'
    <3>1. CASE n # m
      BY <1>1, <1>2, <2>2, <2>3, <2>5, <3>1, ManifestFrame DEF StoreInv
    <3>2. CASE n = m
      BY <1>1, <2>1, <2>2, <2>3, <3>2 DEF ManifestSound
    <3> QED
      BY <3>1, <3>2
  <2>8. ASSUME NEW d \in Chunks PROVE ChunkSound(d)'
    <3>1. \A n \in Manifests : <<n, d>> \in mapped' \cup reserved' =>
            <<n, d>> \in mapped \cup reserved \/ chunk[d] = "ready" \/ d \in raced'
      BY <1>1, <1>3 DEF MakeReady, ChunksOf, TypeOK
    <3> QED
      BY <1>1, <2>5, <3>1, ChunkFrame DEF StoreInv, Locked
  <2>9. \A v \in Collectors : CollectorSound(v)'
    BY <1>1, <2>1, <2>3, <2>5, CollectorsIdle
  <2> QED
    BY <2>5, <2>6, <2>7, <2>8, <2>9 DEF StoreInv
<1>4. CASE commit_snapshot(m) /\ ~(\A c \in Uses[m] : chunk[c] # "absent")
  <2>1. /\ commit[m] /\ commit' = [commit EXCEPT ![m] = FALSE]
        /\ UNCHANGED <<status, mapped, refCount, reserved, raced, late>>
    BY <1>4 DEF commit_snapshot
  <2>2. TypeOK' /\ commit'[m] = FALSE /\ \A n \in Manifests : n # m => commit'[n] = commit[n]
    BY <1>1, <2>1 DEF TypeOK
  <2>3. Maps(m)' <=> Maps(m)
    BY <2>1 DEF Maps
  <2>4. ManifestSound(m)'
    BY <1>1, <1>2, <2>1, <2>2, <2>3 DEF ManifestSound
  <2> QED
    BY <1>1, <1>2, <2>1, <2>2, <2>4, RowStep
<1>5. CASE create_ready_manifest(m) /\ ~(\A c \in Uses[m] : chunk[c] # "absent")
  <2>1. /\ status[m] = "merging" /\ Quiet(m) /\ status' = [status EXCEPT ![m] = "absent"]
        /\ UNCHANGED <<mapped, refCount, reserved, raced, late, commit>>
    BY <1>5 DEF create_ready_manifest, Quiet, handlers
  <2>2. TypeOK' /\ status'[m] = "absent" /\ \A n \in Manifests : n # m => status'[n] = status[n]
    BY <1>1, <2>1 DEF TypeOK
  <2>3. Maps(m)' <=> Maps(m)
    BY <2>1 DEF Maps
  <2>4. ManifestSound(m)'
    BY <1>1, <1>2, <2>1, <2>2, <2>3 DEF ManifestSound
  <2> QED
    BY <1>1, <1>2, <2>1, <2>2, <2>4, RowStep
<1> QED
  BY <1>3, <1>4, <1>5 DEF commit_snapshot, create_ready_manifest

\* The references of a manifest are released by its deletion.
LEMMA DeleteReleaseKeeps ==
  ASSUME StoreAssumption, StoreInv, NEW m \in Manifests, delete_release(m)
  PROVE  StoreInv'
<1>1. /\ deletion[m] = "counted" /\ deletion' = [deletion EXCEPT ![m] = "released"] /\ Release(m)
      /\ UNCHANGED <<status, reserved, chunk, object, versions, upload, commit, gc, late, stranded, faults>>
      /\ TypeOK
  BY DEF delete_release, StoreInv
<1>2. /\ refCount' \in [Chunks -> Nat] /\ mapped' \subseteq mapped
      /\ CountsAgree'
      /\ raced \subseteq raced' /\ raced' \subseteq Chunks
      /\ \A n \in Manifests : WholeManifest(n)' /\ (Maps(n)' <=> n # m /\ Maps(n))
  BY <1>1, ReleaseCounts
<1>3. /\ deletion' \in [Manifests -> {"none", "ready", "counted", "released", "unreserved"}]
      /\ deletion'[m] = "released" /\ \A n \in Manifests : n # m => deletion'[n] = deletion[n]
  BY <1>1 DEF TypeOK
<1>4. TypeOK'
  BY <1>1, <1>2, <1>3 DEF TypeOK
<1>5. \A n \in Manifests : (Quiet(n)' <=> Quiet(n)) /\ (Reserves(n)' <=> Reserves(n))
  BY <1>1 DEF Quiet, Reserves
<1>6. ASSUME NEW n \in Manifests PROVE ManifestSound(n)'
  <2>1. ManifestSound(n)
    BY DEF StoreInv
  <2>2. CASE n # m
    BY <1>1, <1>2, <1>3, <1>5, <2>1, <2>2, ManifestFrame
  <2>3. CASE n = m
    BY <1>1, <1>2, <1>3, <1>5, <2>1, <2>3 DEF ManifestSound
  <2> QED
    BY <2>2, <2>3
<1>7. \A d \in Chunks : ChunkSound(d)'
  BY <1>1, <1>2, ChunkFrame DEF StoreInv, Locked
<1>8. \A v \in Collectors : CollectorSound(v)'
  BY <1>1, <1>2, CollectorsIdle
<1> QED
  BY <1>2, <1>4, <1>6, <1>7, <1>8 DEF StoreInv

\* Steps of a collector that leave the chunks and their uploads alone: what
\* they have to say of that collector and of the manifest it expires.
LEMMA ExpiryStep ==
  ASSUME StoreInv, NEW w \in Collectors, ~Deleting(w), TypeOK', CountsAgree', mapped' \subseteq mapped,
         UNCHANGED <<reserved, chunk, object, upload, commit, deletion, late>>, raced \subseteq raced',
         \A v \in Collectors : v # w => gc'[v] = gc[v],
         gc'[w].todo = {}, ~Deleting(w)',
         Expiring(w)' => gc'[w].manifest \in Manifests /\ status[gc'[w].manifest] \in {"ready", "expired"},
         At(w, "released")' => ~Maps(gc[w].manifest)',
         \A n \in Manifests : /\ WholeManifest(n)' /\ (Maps(n)' => Maps(n))
                              /\ \/ status'[n] = status[n]
                                 \/ status[n] \in {"ready", "expired"} /\ status'[n] = "expired" /\ ~Maps(n)
  PROVE  StoreInv'
<1>1. \A n \in Manifests : (Quiet(n)' <=> Quiet(n)) /\ (Reserves(n)' <=> Reserves(n))
  BY DEF Quiet, Reserves
<1>2. ASSUME NEW n \in Manifests PROVE ManifestSound(n)'
  BY <1>1 DEF StoreInv, ManifestSound
<1>3. gc[w].todo = {}
  BY DEF StoreInv, CollectorSound
<1>4. \A d \in Chunks : ChunkSound(d)'
  BY <1>3, ChunkFrame DEF StoreInv, Locked
<1>5. ASSUME NEW v \in Collectors
      PROVE  /\ gc'[v].todo \subseteq gc[v].todo
             /\ \A c \in gc'[v].todo : chunk'[c] = "deleting"
             /\ Deleting(v)' <=> gc'[v].todo # {}
             /\ Expiring(v)' => /\ gc'[v].manifest \in Manifests
                                /\ status'[gc'[v].manifest] \in {"ready", "expired"}
             /\ At(v, "released")' => ~Maps(gc[v].manifest)'
  <2>1. CASE v = w
    BY <2>1
  <2>2. CASE v # w
    <3>1. /\ gc'[v] = gc[v] /\ CollectorSound(v) /\ (Deleting(v)' <=> Deleting(v))
          /\ (Expiring(v)' <=> Expiring(v)) /\ (At(v, "released")' <=> At(v, "released"))
          /\ At(v, "released") => Expiring(v)
      BY <2>2 DEF StoreInv, Deleting, Expiring, At
    <3> QED
      BY <3>1 DEF CollectorSound
  <2> QED
    BY <2>1, <2>2
<1>6. \A v \in Collectors : CollectorSound(v)'
  BY <1>5, CollectorsFrame
<1> QED
  BY <1>2, <1>4, <1>6 DEF StoreInv

\* A collector expires a snapshot: list, count, release, expire.
LEMMA CollectorExpires ==
  ASSUME StoreAssumption, StoreInv, NEW w \in Collectors,
         \/ \E m \in Manifests : gc_list(w, m)
         \/ gc_count(w) \/ gc_release(w) \/ gc_expire(w)
  PROVE  StoreInv'
<1>1. TypeOK /\ CollectorSound(w) /\ \A n \in Manifests : ManifestSound(n) /\ WholeManifest(n)
  BY DEF StoreInv
<1>2. CASE \E m \in Manifests : gc_list(w, m)
  <2>1. PICK m \in Manifests : gc_list(w, m)
    BY <1>2
  <2> DEFINE g == [step |-> "listed", manifest |-> m, todo |-> {}]
  <2>2. /\ At(w, "idle") /\ status[m] = "ready" /\ gc' = [gc EXCEPT ![w] = g]
        /\ UNCHANGED <<status, mapped, reserved, chunk, refCount, versions, object, upload, commit,
                       deletion, raced, late, stranded, faults>>
    BY <2>1 DEF gc_list, tables
  <2>3. g \in Collector /\ g.step = "listed" /\ g.manifest = m /\ g.todo = {}
    BY DEF Collector, Steps
  <2> HIDE DEF g
  <2>4. gc' \in [Collectors -> Collector] /\ gc'[w] = g /\ \A v \in Collectors : v # w => gc'[v] = gc[v]
    BY <1>1, <2>2, <2>3, SetFacts
  <2>5. ~Deleting(w) /\ ~Deleting(w)' /\ ~At(w, "released")'
    BY <2>2, <2>3, <2>4 DEF At, Deleting
  <2>6. TypeOK' /\ CountsAgree'
    BY <1>1, <2>2, <2>4, CountsFrame DEF TypeOK, StoreInv
  <2> QED
    BY <2>2, <2>3, <2>4, <2>5, <2>6, TablesFrame, ExpiryStep
<1>3. CASE gc_count(w)
  <2>1. PICK st \in {"counted", "released"} :
          /\ Goto(w, st) /\ At(w, "listed") /\ (st = "released" => ~Counts(gc[w].manifest))
          /\ UNCHANGED <<status, mapped, reserved, chunk, refCount, versions, object, upload, commit,
                         deletion, raced, late, stranded, faults>>
    BY <1>3 DEF gc_count, tables
  <2>2. /\ gc' \in [Collectors -> Collector]
        /\ gc'[w].step = st /\ gc'[w].todo = gc[w].todo /\ gc'[w].manifest = gc[w].manifest
        /\ \A v \in Collectors : v # w => gc'[v] = gc[v]
    BY <1>1, <2>1, GotoFacts DEF Steps
  <2>3. ~Deleting(w) /\ ~Deleting(w)' /\ Expiring(w) /\ (At(w, "released")' => st = "released")
    BY <2>1, <2>2 DEF At, Deleting, Expiring
  <2>4. TypeOK' /\ CountsAgree'
    BY <1>1, <2>1, <2>2, CountsFrame DEF TypeOK, StoreInv
  <2>5. At(w, "released")' => ~Maps(gc[w].manifest)'
    BY <2>1, <2>2, <2>3 DEF Maps, Counts
  <2>6. gc'[w].todo = {} /\ gc'[w].manifest \in Manifests /\ status[gc'[w].manifest] \in {"ready", "expired"}
    BY <1>1, <2>2, <2>3 DEF CollectorSound
  <2> QED
    BY <2>1, <2>2, <2>3, <2>4, <2>5, <2>6, TablesFrame, ExpiryStep
<1>4. CASE gc_release(w)
  <2>1. PICK m \in Manifests : m = gc[w].manifest /\ status[m] \in {"ready", "expired"}
    BY <1>1, <1>4 DEF gc_release, At, Expiring, CollectorSound
  <2>2. /\ At(w, "counted") /\ Goto(w, "released") /\ Release(m)
        /\ UNCHANGED <<status, reserved, chunk, object, versions, upload, commit, deletion, late,
                       stranded, faults>>
    BY <1>4, <2>1 DEF gc_release
  <2>3. /\ gc' \in [Collectors -> Collector]
        /\ gc'[w].step = "released" /\ gc'[w].todo = gc[w].todo /\ gc'[w].manifest = m
        /\ \A v \in Collectors : v # w => gc'[v] = gc[v]
    BY <1>1, <2>1, <2>2, GotoFacts DEF Steps
  <2>4. /\ refCount' \in [Chunks -> Nat] /\ mapped' \subseteq mapped
        /\ CountsAgree'
        /\ raced \subseteq raced' /\ raced' \subseteq Chunks
        /\ \A n \in Manifests : WholeManifest(n)' /\ (Maps(n)' <=> n # m /\ Maps(n))
    BY <2>2, ReleaseCounts
  <2>5. ~Deleting(w) /\ ~Deleting(w)'
    BY <2>2, <2>3 DEF At, Deleting
  <2>6. TypeOK'
    BY <1>1, <2>2, <2>3, <2>4 DEF TypeOK
  <2>7. ~Maps(gc[w].manifest)' /\ gc'[w].todo = {}
    BY <1>1, <2>3, <2>4, <2>5 DEF CollectorSound
  <2> QED
    BY <2>1, <2>2, <2>3, <2>4, <2>5, <2>6, <2>7, ExpiryStep
<1>5. CASE gc_expire(w)
  <2>1. PICK m \in Manifests : m = gc[w].manifest /\ status[m] \in {"ready", "expired"} /\ ~Maps(m)
    BY <1>1, <1>5 DEF gc_expire, At, Expiring, CollectorSound
  <2>2. /\ At(w, "released") /\ gc' = [gc EXCEPT ![w] = IdleCollector]
        /\ status' = [status EXCEPT ![m] = "expired"]
        /\ UNCHANGED <<mapped, reserved, chunk, refCount, object, versions, upload, commit, deletion,
                       raced, late, stranded, faults>>
    BY <1>5, <2>1 DEF gc_expire
  <2>3. /\ IdleCollector \in Collector /\ IdleCollector.step = "idle" /\ IdleCollector.todo = {}
    BY DEF Collector, IdleCollector, Steps
  <2>4. gc' \in [Collectors -> Collector] /\ gc'[w] = IdleCollector /\ \A v \in Collectors : v # w => gc'[v] = gc[v]
    BY <1>1, <2>2, <2>3, SetFacts
  <2>5. ~Deleting(w) /\ ~Deleting(w)' /\ ~Expiring(w)' /\ ~At(w, "released")'
    BY <2>2, <2>3, <2>4 DEF At, Deleting, Expiring
  <2>6. /\ status' \in [Manifests -> {"absent", "merging", "uploading", "ready", "expired"}]
        /\ status'[m] = "expired" /\ \A n \in Manifests : n # m => status'[n] = status[n]
    BY <1>1, <2>2 DEF TypeOK
  <2>7. TypeOK' /\ CountsAgree'
    BY <1>1, <2>2, <2>4, <2>6, CountsFrame DEF TypeOK, StoreInv
  <2> QED
    BY <2>1, <2>2, <2>3, <2>4, <2>5, <2>6, <2>7, TablesFrame, ExpiryStep
<1> QED
  BY <1>2, <1>3, <1>4, <1>5

\* Collecting chunks takes nothing from the manifests but reservations.
LEMMA ManifestsIdle ==
  ASSUME StoreInv, UNCHANGED <<status, mapped, refCount, upload, commit, deletion, late>>,
         reserved' \subseteq reserved, raced \subseteq raced'
  PROVE  CountsAgree' /\ \A n \in Manifests : WholeManifest(n)' /\ ManifestSound(n)'
<1>1. \A n \in Manifests : Quiet(n)' <=> Quiet(n)
  BY DEF Quiet
<1> QED
  BY <1>1, CountsFrame, TablesFrame, ManifestFrame DEF StoreInv

\* A collector marks what nobody refers to.
LEMMA MarkKeeps ==
  ASSUME StoreAssumption, StoreInv, NEW w \in Collectors, gc_mark(w)
  PROVE  StoreInv'
<1> DEFINE g == [step |-> "delete", manifest |-> NoManifest, todo |-> Collectable]
<1>1. /\ At(w, "idle") /\ Collectable # {} /\ gc' = [gc EXCEPT ![w] = g]
      /\ chunk' = [c \in Chunks |-> IF c \in Collectable THEN "deleting" ELSE chunk[c]]
      /\ UNCHANGED <<status, mapped, reserved, refCount, object, versions, upload, commit, deletion,
                     raced, late, stranded, faults>>
  BY DEF gc_mark
<1>2. /\ g \in Collector /\ g.step = "delete" /\ g.todo = Collectable
      /\ Collectable \subseteq Chunks /\ \A c \in Collectable : chunk[c] = "ready"
  BY DEF Collector, Steps, Collectable
<1> HIDE DEF g
<1>3. gc' \in [Collectors -> Collector] /\ gc'[w] = g /\ \A v \in Collectors : v # w => gc'[v] = gc[v]
  BY <1>1, <1>2, SetFacts DEF StoreInv
<1>4. TypeOK'
  BY <1>1, <1>3 DEF StoreInv, TypeOK
<1>5. CountsAgree' /\ \A n \in Manifests : WholeManifest(n)' /\ ManifestSound(n)'
  BY <1>1, ManifestsIdle
<1>6. ASSUME NEW d \in Chunks PROVE ChunkSound(d)'
  <2>1. CASE d \notin Collectable
    BY <1>1, <1>2, <1>3, <2>1, ChunkFrame DEF StoreInv, Locked
  <2>2. CASE d \in Collectable
    <3>1. d \notin raced => References(d) = {}
      <4>1. IsFiniteSet(References(d))
        BY FS_Subset DEF References, StoreAssumption
      <4> QED
        BY <2>2, <4>1, FS_EmptySet DEF StoreInv, CountsAgree, Collectable
    <3>2. d \notin raced => \A m \in Manifests : <<m, d>> \notin mapped \cup reserved
      BY <2>2, <3>1 DEF References, Collectable
    <3>3. d \notin raced => \A m \in Manifests : upload[m][d] # "stored"
      BY <1>2, <2>2 DEF StoreInv, ChunkSound
    <3>4. \A m, n \in Manifests : Locked(m, d)' /\ Locked(n, d)' => m = n
      BY <1>1 DEF StoreInv, ChunkSound, Locked
    <3> QED
      BY <1>1, <2>2, <3>2, <3>3, <3>4 DEF ChunkSound
  <2> QED
    BY <2>1, <2>2
<1>7. ASSUME NEW v \in Collectors PROVE CollectorSound(v)'
  <2>1. \A u \in Collectors : /\ CollectorSound(u) /\ gc[u].todo \subseteq Chunks
                              /\ \A c \in gc[u].todo : chunk[c] = "deleting"
    BY DEF StoreInv, CollectorSound, TypeOK, Collector
  <2>2. \A u \in Collectors : gc[u].todo \cap Collectable = {}
    BY <1>2, <2>1
  <2>3. CASE v = w
    <3>1. Deleting(v)' /\ ~Expiring(v)' /\ ~At(v, "released")'
      BY <1>2, <1>3, <2>3 DEF Deleting, Expiring, At
    <3>2. \A c \in gc'[v].todo : chunk'[c] = "deleting"
      BY <1>1, <1>2, <1>3, <2>3
    <3>3. \A u \in Collectors : u # v => gc'[u].todo \cap gc'[v].todo = {}
      BY <1>2, <1>3, <2>2, <2>3
    <3> QED
      BY <1>1, <1>2, <1>3, <2>3, <3>1, <3>2, <3>3 DEF CollectorSound
  <2>4. CASE v # w
    <3>1. /\ gc'[v] = gc[v] /\ (Deleting(v)' <=> Deleting(v)) /\ (Expiring(v)' <=> Expiring(v))
          /\ (At(v, "released")' <=> At(v, "released"))
      BY <1>3, <2>4 DEF Deleting, Expiring, At
    <3>2. \A c \in gc'[v].todo : chunk'[c] = "deleting"
      BY <1>1, <2>1, <3>1
    <3>3. \A u \in Collectors : u # v => gc'[u].todo \cap gc'[v].todo = {}
      BY <1>2, <1>3, <2>1, <2>2, <2>4, <3>1 DEF CollectorSound
    <3>4. Maps(gc[v].manifest)' <=> Maps(gc[v].manifest)
      <4>1. mapped' = mapped /\ gc'[v].manifest = gc[v].manifest
        BY <1>1, <3>1
      <4> QED
        BY <4>1 DEF Maps
    <3> QED
      BY <1>1, <2>1, <3>1, <3>2, <3>3, <3>4 DEF CollectorSound
  <2> QED
    BY <2>3, <2>4
<1> QED
  BY <1>4, <1>5, <1>6, <1>7 DEF StoreInv

\* The chunks whose turn it is not.
LEMMA Bystander ==
  ASSUME StoreInv, NEW w \in Collectors, Deleting(w), NEW d \in Chunks, d # Current(w),
         chunk'[d] = chunk[d], object'[d] = object[d], mapped' = mapped, reserved' \subseteq reserved,
         raced \subseteq raced', upload' = upload, gc'[w].todo \subseteq gc[w].todo,
         \A v \in Collectors : v # w => gc'[v] = gc[v]
  PROVE  ChunkSound(d)'
<1>1. CASE d \notin gc[w].todo
  BY <1>1, ChunkFrame DEF StoreInv, Locked
<1>2. CASE d \in gc[w].todo
  <2>1. \A m \in Manifests : d \notin raced /\ upload[m][d] = "stored" => object[d] = "other"
    BY <1>2 DEF StoreInv, ChunkSound
  <2> QED
    BY <2>1 DEF StoreInv, ChunkSound, Locked
<1> QED
  BY <1>1, <1>2

\* A collector deletes its chunks one by one: what a step has to say of the
\* chunk whose turn it is and of the collector.
LEMMA DeletionStep ==
  ASSUME StoreInv, NEW w \in Collectors, Deleting(w), TypeOK', NEW c \in Chunks, c = Current(w), ChunkSound(c)',
         UNCHANGED <<status, mapped, refCount, upload, commit, deletion, late>>,
         reserved' \subseteq reserved, raced \subseteq raced',
         \A d \in Chunks : d # Current(w) => chunk'[d] = chunk[d] /\ object'[d] = object[d],
         gc'[w].todo \subseteq gc[w].todo, Current(w) \in gc'[w].todo => chunk' = chunk,
         Deleting(w)' <=> gc'[w].todo # {}, ~Expiring(w)', ~At(w, "released")',
         \A v \in Collectors : v # w => gc'[v] = gc[v]
  PROVE  StoreInv'
<1>1. CountsAgree' /\ \A n \in Manifests : WholeManifest(n)' /\ ManifestSound(n)'
  BY ManifestsIdle
<1>2. ASSUME NEW d \in Chunks PROVE ChunkSound(d)'
  <2>1. CASE d # Current(w)
    BY <2>1, Bystander
  <2>2. CASE d = c
    BY <2>2
  <2> QED
    BY <2>1, <2>2
<1>3. /\ Current(w) \in gc[w].todo /\ Current(w) \in Chunks /\ chunk[Current(w)] = "deleting"
      /\ \A v \in Collectors : v # w => Current(w) \notin gc[v].todo
  BY CurrentFacts
<1>4. ASSUME NEW v \in Collectors
      PROVE  /\ gc'[v].todo \subseteq gc[v].todo
             /\ \A x \in gc'[v].todo : chunk'[x] = "deleting"
             /\ Deleting(v)' <=> gc'[v].todo # {}
             /\ Expiring(v)' => /\ gc'[v].manifest \in Manifests
                                /\ status'[gc'[v].manifest] \in {"ready", "expired"}
             /\ At(v, "released")' => ~Maps(gc[v].manifest)'
  <2>1. gc[v].todo \subseteq Chunks /\ (\A x \in gc[v].todo : chunk[x] = "deleting") /\ CollectorSound(v)
    BY DEF StoreInv, TypeOK, Collector, CollectorSound
  <2>2. CASE v = w
    <3>1. \A x \in gc'[v].todo : chunk'[x] = "deleting"
      BY <1>3, <2>1, <2>2
    <3> QED
      BY <2>2, <3>1
  <2>3. CASE v # w
    <3>1. /\ gc'[v] = gc[v] /\ (Deleting(v)' <=> Deleting(v)) /\ (Expiring(v)' <=> Expiring(v))
          /\ (At(v, "released")' <=> At(v, "released"))
      BY <2>3 DEF Deleting, Expiring, At
    <3>2. \A x \in gc'[v].todo : chunk'[x] = "deleting"
      BY <1>3, <2>1, <2>3, <3>1
    <3>3. Maps(gc[v].manifest)' <=> Maps(gc[v].manifest)
      BY <3>1 DEF Maps
    <3> QED
      BY <2>1, <3>1, <3>2, <3>3 DEF CollectorSound
  <2> QED
    BY <2>2, <2>3
<1>5. \A v \in Collectors : CollectorSound(v)'
  BY <1>4, CollectorsFrame
<1> QED
  BY <1>1, <1>2, <1>5 DEF StoreInv

\* The object is deleted, or the deletion fails.
LEMMA ObjectKeeps ==
  ASSUME StoreAssumption, StoreInv, NEW w \in Collectors, gc_delete_object(w) \/ gc_delete_fails(w)
  PROVE  StoreInv'
<1>1. PICK st \in {"row", "restore"} :
        /\ At(w, "delete") /\ Goto(w, st)
        /\ st = "row" <=> gc_delete_object(w)
        /\ st = "restore" <=> gc_delete_fails(w)
  <2>1. ~(Goto(w, "row") /\ Goto(w, "restore"))
    BY GotoFacts DEF StoreInv, Steps
  <2> QED
    BY <2>1 DEF gc_delete_object, gc_delete_fails
<1>2. /\ UNCHANGED <<status, mapped, reserved, chunk, refCount, versions, upload, commit, deletion, late, stranded>>
      /\ TypeOK
  BY DEF gc_delete_object, gc_delete_fails, tables, StoreInv
<1>3. Deleting(w)
  BY <1>1 DEF At, Deleting
<1>4. PICK c \in Chunks : /\ c = Current(w) /\ c \in gc[w].todo /\ chunk[c] = "deleting"
                          /\ \A v \in Collectors : v # w => c \notin gc[v].todo
  BY <1>3, CurrentFacts
<1>5. /\ object' = object \/ object' = [object EXCEPT ![c] = "none"]
      /\ st = "row" => object' = [object EXCEPT ![c] = "none"]
      /\ raced \subseteq raced' /\ raced' \subseteq raced \cup {c}
      /\ st = "row" /\ (\E m \in Manifests : upload[m][c] = "stored") => c \in raced'
  BY <1>1, <1>4 DEF gc_delete_object, gc_delete_fails
<1>6. faults' \in 0..MaxFaults
  BY <1>2 DEF gc_delete_object, gc_delete_fails, Fault, TypeOK, StoreAssumption
<1>7. /\ gc' \in [Collectors -> Collector]
      /\ gc'[w].step = st /\ gc'[w].todo = gc[w].todo
      /\ \A v \in Collectors : v # w => gc'[v] = gc[v]
  BY <1>1, <1>2, GotoFacts DEF Steps
<1>8. /\ object' \in [Chunks -> {"none", "row", "other"}] /\ object'[c] \in {"none", object[c]}
      /\ \A d \in Chunks : d # c => object'[d] = object[d]
  BY <1>2, <1>5 DEF TypeOK
<1>9. TypeOK'
  BY <1>2, <1>4, <1>5, <1>6, <1>7, <1>8 DEF TypeOK
<1>10. ChunkSound(c)'
  <2>1. ChunkSound(c)
    BY DEF StoreInv
  <2>2. \A m, n \in Manifests : Locked(m, c)' /\ Locked(n, c)' => m = n
    BY <1>2, <2>1 DEF ChunkSound, Locked
  <2>3. CASE st = "row"
    BY <1>2, <1>4, <1>5, <2>1, <2>2, <2>3 DEF ChunkSound
  <2>4. CASE st = "restore"
    <3>1. \A v \in Collectors : c \in gc'[v].todo => v = w
      BY <1>4, <1>7
    <3>2. At(w, "restore")' /\ c = Current(w)'
      BY <1>4, <1>7, <2>4 DEF At, Current
    <3> QED
      BY <1>2, <1>4, <1>5, <1>8, <2>1, <2>2, <3>1, <3>2 DEF ChunkSound
  <2> QED
    BY <2>3, <2>4
<1>11. Deleting(w)' /\ ~Expiring(w)' /\ ~At(w, "released")'
  BY <1>7 DEF Deleting, Expiring, At
<1> QED
  BY <1>2, <1>3, <1>4, <1>5, <1>7, <1>8, <1>9, <1>10, <1>11, DeletionStep

\* The row goes, stays marked or is ready again.
LEMMA RowKeeps ==
  ASSUME StoreAssumption, StoreInv, NEW w \in Collectors, gc_delete_row(w) \/ gc_restore(w)
  PROVE  StoreInv'
<1>1. /\ UNCHANGED <<status, mapped, refCount, object, versions, upload, commit, deletion, late, faults>>
      /\ TypeOK
  BY DEF gc_delete_row, gc_restore, StoreInv
<1>2. Deleting(w)
  BY DEF gc_delete_row, gc_restore, At, Deleting
<1>3. PICK c \in Chunks : /\ c = Current(w) /\ c \in gc[w].todo /\ chunk[c] = "deleting"
                          /\ \A v \in Collectors : v # w => c \notin gc[v].todo
  BY <1>2, CurrentFacts
<1>4. ChunkSound(c) /\ \A m, n \in Manifests : Locked(m, c)' /\ Locked(n, c)' => m = n
  BY <1>1 DEF StoreInv, ChunkSound, Locked
<1>5. /\ gc' \in [Collectors -> Collector] /\ c \notin gc'[w].todo /\ gc'[w].todo \subseteq gc[w].todo
      /\ ~Expiring(w)' /\ ~At(w, "released")' /\ (Deleting(w)' <=> gc'[w].todo # {})
      /\ \A v \in Collectors : v # w => gc'[v] = gc[v]
  <2>1. CASE Continue(w)
    BY <1>2, <1>3, <2>1, ContinueFacts
  <2>2. CASE gc' = [gc EXCEPT ![w] = IdleCollector]
    <3>1. IdleCollector \in Collector /\ IdleCollector.step = "idle" /\ IdleCollector.todo = {}
      BY DEF Collector, IdleCollector, Steps
    <3>2. gc' \in [Collectors -> Collector] /\ gc'[w] = IdleCollector /\ \A v \in Collectors : v # w => gc'[v] = gc[v]
      BY <1>1, <2>2, <3>1, SetFacts
    <3> QED
      BY <3>1, <3>2 DEF Expiring, At, Deleting
  <2> QED
    BY <2>1, <2>2 DEF gc_delete_row, gc_restore
<1>6. \A v \in Collectors : c \notin gc'[v].todo
  BY <1>3, <1>5
<1>7. /\ reserved' \subseteq reserved /\ raced \subseteq raced' /\ raced' \subseteq raced \cup {c}
      /\ stranded' \subseteq Chunks
  <2>1. gc[w].todo \subseteq Chunks /\ stranded \subseteq Chunks
    BY <1>1 DEF TypeOK, Collector
  <2> QED
    BY <1>3, <2>1 DEF gc_delete_row, gc_restore
<1>8. /\ chunk' \in [Chunks -> {"absent", "ready", "deleting"}]
      /\ \A d \in Chunks : d # c => chunk'[d] = chunk[d]
  BY <1>1, <1>3 DEF gc_delete_row, gc_restore, TypeOK
<1>9. TypeOK'
  BY <1>1, <1>5, <1>7, <1>8 DEF TypeOK
<1>10. ChunkSound(c)'
  <2>1. CASE gc_delete_row(w)
    <3>1. /\ At(w, "row") /\ raced' = raced
          /\ \/ /\ chunk'[c] = "absent" /\ \A m \in Manifests : <<m, c>> \notin mapped \cup reserved'
             \/ chunk'[c] = "deleting"
      BY <1>1, <1>3, <2>1 DEF gc_delete_row, TypeOK
    <3>2. c \notin raced => \A m \in Manifests : upload[m][c] = "stored" => object[c] = "other"
      BY <1>3, <1>4, <3>1 DEF ChunkSound, At
    <3> QED
      BY <1>1, <1>3, <1>4, <1>6, <1>7, <3>1, <3>2 DEF ChunkSound
  <2>2. CASE gc_restore(w)
    <3>1. chunk'[c] = "ready" /\ (c \notin raced' => object[c] = "row")
      BY <1>1, <1>3, <2>2 DEF gc_restore, TypeOK
    <3> QED
      BY <1>1, <1>4, <1>7, <3>1 DEF ChunkSound
  <2> QED
    BY <2>1, <2>2
<1> QED
  BY <1>1, <1>2, <1>3, <1>5, <1>7, <1>8, <1>9, <1>10, DeletionStep

\* A collector dies.
LEMMA DeathKeeps ==
  ASSUME StoreAssumption, StoreInv, NEW w \in Collectors, gc_dies(w)
  PROVE  StoreInv'
<1>1. /\ UNCHANGED <<status, mapped, reserved, chunk, refCount, versions, object, upload, commit,
                     deletion, raced, late>>
      /\ gc' = [gc EXCEPT ![w] = IdleCollector] /\ TypeOK
  BY DEF gc_dies, tables, StoreInv
<1>2. faults' \in 0..MaxFaults /\ stranded' \subseteq Chunks
  <2>1. gc[w].todo \subseteq Chunks
    BY <1>1 DEF TypeOK, Collector
  <2>2. stranded' \subseteq Chunks
    BY <1>1, <2>1 DEF gc_dies, TypeOK
  <2>3. faults' \in 0..MaxFaults
    BY <1>1 DEF gc_dies, Fault, TypeOK, StoreAssumption
  <2> QED
    BY <2>2, <2>3
<1>3. IdleCollector \in Collector /\ IdleCollector.step = "idle" /\ IdleCollector.todo = {}
  BY DEF Collector, IdleCollector, Steps
<1>4. gc' \in [Collectors -> Collector] /\ gc'[w] = IdleCollector /\ \A v \in Collectors : v # w => gc'[v] = gc[v]
  BY <1>1, <1>3, SetFacts
<1>5. TypeOK'
  BY <1>1, <1>2, <1>4 DEF TypeOK
<1>6. CountsAgree' /\ \A n \in Manifests : WholeManifest(n)' /\ ManifestSound(n)'
  BY <1>1, ManifestsIdle
<1>7. \A d \in Chunks : ChunkSound(d)'
  BY <1>1, <1>3, <1>4, ChunkFrame DEF StoreInv, Locked
<1>8. ASSUME NEW v \in Collectors
      PROVE  /\ gc'[v].todo \subseteq gc[v].todo
             /\ \A c \in gc'[v].todo : chunk'[c] = "deleting"
             /\ Deleting(v)' <=> gc'[v].todo # {}
             /\ Expiring(v)' => /\ gc'[v].manifest \in Manifests
                                /\ status'[gc'[v].manifest] \in {"ready", "expired"}
             /\ At(v, "released")' => ~Maps(gc[v].manifest)'
  <2>1. CASE v = w
    BY <1>3, <1>4, <2>1 DEF Deleting, Expiring, At
  <2>2. CASE v # w
    <3>1. /\ gc'[v] = gc[v] /\ CollectorSound(v) /\ (Deleting(v)' <=> Deleting(v))
          /\ (Expiring(v)' <=> Expiring(v)) /\ (At(v, "released")' <=> At(v, "released"))
      BY <1>4, <2>2 DEF StoreInv, Deleting, Expiring, At
    <3>2. Maps(gc[v].manifest)' <=> Maps(gc[v].manifest)
      BY <1>1, <3>1 DEF Maps
    <3> QED
      BY <1>1, <3>1, <3>2 DEF CollectorSound
  <2> QED
    BY <2>1, <2>2
<1>9. \A v \in Collectors : CollectorSound(v)'
  BY <1>8, CollectorsFrame
<1> QED
  BY <1>5, <1>6, <1>7, <1>9 DEF StoreInv
-----------------------------------------------------------------------------
\* Every step keeps the invariant.
LEMMA StoreStep ==
  ASSUME StoreAssumption, StoreInv, [Next]_vars
  PROVE  StoreInv'
<1>1. CASE UNCHANGED vars
  <2>1. TypeOK'
    BY <1>1 DEF vars, StoreInv, TypeOK
  <2>2. CountsAgree' /\ \A n \in Manifests : WholeManifest(n)' /\ ManifestSound(n)'
    BY <1>1, ManifestsIdle DEF vars
  <2>3. \A d \in Chunks : ChunkSound(d)'
    BY <1>1, ChunkFrame DEF vars, StoreInv, Locked
  <2>4. \A v \in Collectors : CollectorSound(v)'
    BY <1>1, TablesFrame, CollectorsIdle DEF vars
  <2> QED
    BY <2>1, <2>2, <2>3, <2>4 DEF StoreInv
<1>2. CASE UploadStep
  BY <1>2, UploadKeeps, UploadEndKeeps DEF UploadStep
<1>3. CASE ManifestStep
  BY <1>3, BeginKeeps, ExpireKeeps, ReadyKeeps, DeleteReleaseKeeps DEF ManifestStep
<1>4. ASSUME NEW w \in Collectors, CollectStep(w) PROVE StoreInv'
  BY <1>4, CollectorExpires, MarkKeeps, ObjectKeeps, RowKeeps DEF CollectStep
<1>5. ASSUME NEW w \in Collectors, gc_delete_fails(w) \/ gc_dies(w) PROVE StoreInv'
  BY <1>5, ObjectKeeps, DeathKeeps
<1>6. ASSUME NEW w \in Collectors, NEW m \in Manifests, gc_abandon(w, m) \/ gc_list(w, m) PROVE StoreInv'
  BY <1>6, ExpireKeeps, CollectorExpires
<1> QED
  BY <1>1, <1>2, <1>3, <1>4, <1>5, <1>6 DEF Next

\* What the invariant says of the snapshots.
LEMMA StoreInvSound ==
  ASSUME StoreInv
  PROVE  TypeOK /\ SnapshotsSound
<1>1. ASSUME NEW p \in mapped \cup reserved
      PROVE  /\ p[2] \notin raced => chunk[p[2]] = "ready" /\ object[p[2]] = "row"
             /\ status[p[1]] = "expired" => p[1] \in late
  <2>1. PICK m \in Manifests, c \in Chunks : p = <<m, c>>
    BY DEF StoreInv, TypeOK
  <2>2. ChunkSound(c) /\ ManifestSound(m)
    BY DEF StoreInv
  <2>3. Maps(m) \/ Reserves(m)
    BY <2>1 DEF Maps, Reserves
  <2>4. c \notin raced => chunk[c] = "ready" /\ object[c] = "row"
    BY <2>1, <2>2 DEF ChunkSound
  <2>5. status[m] = "expired" => m \in late
    BY <2>2, <2>3 DEF ManifestSound
  <2> QED
    BY <2>1, <2>4, <2>5
<1> QED
  BY <1>1 DEF StoreInv, SnapshotsSound, ReadableUnlessRaced, ExpiredHoldsNothing

\* The invariant holds in every state, for any number of snapshots, chunks,
\* uploads and collectors.
THEOREM StoreInvariant ==
  ASSUME StoreAssumption
  PROVE  Spec => []StoreInv
<1>1. Init => StoreInv
  BY StoreInit
<1>2. StoreInv /\ [Next]_vars => StoreInv'
  BY StoreStep
<1> QED
  BY <1>1, <1>2, PTL DEF Spec

\* Reference counts never exceed the references, what is held can be read
\* back unless a named race hit it, and what is expired holds nothing unless
\* it was written to late (delete_snapshot, garbage_collect).
THEOREM StoreCorrect ==
  ASSUME StoreAssumption
  PROVE  Spec => [](TypeOK /\ SnapshotsSound)
<1>1. StoreInv => TypeOK /\ SnapshotsSound
  BY StoreInvSound
<1> QED
  BY <1>1, StoreInvariant, PTL
=============================================================================
