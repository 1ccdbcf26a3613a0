------------------------ MODULE GetDocumentReads_proof ------------------------
(***************************************************************************)
(* What getDocument reads: the app's own writes, what it was shown before, *)
(* and, when the answer claims to be the server's, what watch had.         *)
(***************************************************************************)
EXTENDS GetDocument_proof

-----------------------------------------------------------------------------
(* The invariant.                                                           *)

\* The own writes and the others that the cached document stands for: of an
\* unknown document only the own ones are known, those of its version.
Settled(cache) == IF Found(cache) THEN cache.has ELSE ContentAt(cache.version) \cap OwnWrites

\* What the client c knows, and what the app need not be told again, or was
\* told had failed.
KnownTo(c) == Settled(c.cache) \cup Elements(c.queue)
Known == KnownTo(client) \cup refused

\* A document with has shows these writes, up to those that failed; a missing
\* one has no place for the app's own.
Shows(has, writes, failed) ==
    IF has = {} THEN writes \subseteq OwnWrites ELSE writes \subseteq has \cup failed

\* The cached document is a version of the server's.  After an acknowledgement
\* writes of others may be missing in it (committed); it is then older than
\* every write that the server has applied and not acknowledged.
CacheOK(cache, queue, versions) ==
    /\ cache.version <= Len(log)
    /\ cache.has \subseteq ContentAt(cache.version)
    /\ ~ cache.committed => cache.has = ContentAt(cache.version)
    /\ \A i \in DOMAIN versions : versions[i] # Refusal =>
          versions[i] \in 2..Len(log) /\ log[versions[i]] = queue[i]
    /\ \A i, j \in DOMAIN versions :
          i < j /\ versions[i] # Refusal /\ versions[j] # Refusal => versions[i] < versions[j]
    /\ cache.committed => \A i \in DOMAIN versions :
          versions[i] # Refusal => cache.version < versions[i]

CacheInv == CacheOK(client.cache, client.queue, applied)

\* Snapshots come in the order of their versions, documents are what the
\* server had, and nothing comes between a document and its snapshot but the
\* news that the target is current.
Delivered(doc) == doc.version \in 2..watched /\ doc.has = ContentAt(doc.version)

DeliveryInv ==
    /\ client.resume_token <= client.last_remote_snapshot
    /\ client.last_remote_snapshot <= watched
    /\ \A i \in DOMAIN fromServer : fromServer[i].type = "snapshot" =>
          /\ fromServer[i].version \in 1..watched
          /\ client.last_remote_snapshot <= fromServer[i].version
          /\ \A j \in DOMAIN fromServer : i < j /\ fromServer[j].type = "snapshot"
                => fromServer[i].version <= fromServer[j].version
    /\ \A i \in DOMAIN fromServer :
          /\ fromServer[i].type = "current" =>
                i + 1 \in DOMAIN fromServer /\ fromServer[i + 1].type = "snapshot"
          /\ fromServer[i].type = "document" =>
                /\ Delivered(fromServer[i])
                /\ i + 1 \in DOMAIN fromServer
                /\ fromServer[i + 1].type \in {"current", "snapshot"}
    /\ client.update # Nil =>
          /\ Delivered(client.update)
          /\ 1 \in DOMAIN fromServer /\ fromServer[1].type \in {"current", "snapshot"}
          /\ IsActiveTarget(client) => client.target.change # "none"

\* The message at i will find the target active.
Live(i) ==
    /\ client.listening
    /\ client.target.outstanding_responses <= Cardinality(Replies(fromServer))
    /\ \A j \in Replies(fromServer) : j < i

\* The document of version v is delivered by the message at i, or was (0).
DocumentAt(i, v) ==
    \/ i \in DOMAIN fromServer /\ fromServer[i].type = "document" /\ fromServer[i].version = v
    \/ i = 0 /\ client.update # Nil /\ client.update.version = v

Precedes(i, v) ==
    \/ DocumentAt(i - 1, v)
    \/ i - 1 \in DOMAIN fromServer /\ fromServer[i - 1].type = "current" /\ DocumentAt(i - 2, v)

\* What the resume token stands for is in the cache, and is listed.
TokensOK(c) ==
    /\ \A i \in DOMAIN c.requests : c.requests[i].type = "watch"
          => c.requests[i].resume_token <= c.resume_token
    /\ c.resume_token >= 2 => /\ c.remote_keys /\ c.resume_token <= c.cache.version
                              /\ c.listening => c.view.synced
    /\ c.listening /\ c.view.synced => c.remote_keys

\* A snapshot for the target comes with its document, unless that is known.
WatchInv ==
    /\ TokensOK(client)
    /\ \A i \in DOMAIN fromServer : fromServer[i].type = "snapshot" /\ Live(i) =>
          /\ client.view.since <= fromServer[i].version
          /\ fromServer[i].version >= 2 =>
                \/ client.view.synced /\ fromServer[i].version <= client.cache.version
                \/ Precedes(i, fromServer[i].version)

\* The view shows what is known, or has failed.  While it waits for an
\* acknowledged write, it may be behind what a get would be shown.
ViewShows(c, known, failed) ==
    c.view # Nil =>
       /\ c.view.has \subseteq known /\ Shows(c.view.has, known, failed)
       /\ ~ c.cache.committed => c.view.has = LocalView(c).has

\* What an answer has to show is known, or waits on the worker queue before
\* the get that has to show it.
KnownInv ==
    /\ seen \subseteq Known
    /\ \A w \in mine : w \in Known \/ [type |-> "write", write |-> w] \in Elements(worker)
    /\ \A i \in DOMAIN worker : worker[i].type = "add" => \A w \in must[worker[i].get] :
          w \in Known \/ \E j \in 1..(i - 1) : worker[j] = [type |-> "write", write |-> w]
    /\ \A g \in client.listeners : must[g] \subseteq Known
    /\ ViewShows(client, Known, refused)
    /\ \A e \in Elements(main) : e.snapshot # Nil =>
          /\ e.snapshot.has \subseteq Known
          /\ \A g \in e.gets : Shows(e.snapshot.has, must[g], refused)

\* A snapshot that claims to be the server's has what watch had.
Fresh(s) == ~ s.from_cache /\ s.settled => ContentAt(s.since) \subseteq s.has

FreshInv ==
    /\ client.view # Nil /\ client.view.current =>
          client.view.since <= 1 \/ client.view.since <= client.cache.version
    /\ client.snapshot # Nil => Fresh(client.snapshot)
    /\ \A e \in Elements(main) : e.snapshot # Nil => Fresh(e.snapshot)

ReadsInv == CacheInv /\ DeliveryInv /\ WatchInv /\ KnownInv /\ FreshInv

-----------------------------------------------------------------------------
(* The cached document.                                                     *)

LEMMA ContentGrows ==
    ASSUME NEW v \in Nat, NEW w \in Nat, v <= w
    PROVE  ContentAt(v) \subseteq ContentAt(w)
  BY DEF ContentAt

LEMMA ContentSame ==
    ASSUME UNCHANGED log
    PROVE  \A v : ContentAt(v)' = ContentAt(v)
  BY DEF ContentAt

LEMMA SettledSame ==
    ASSUME UNCHANGED log
    PROVE  \A cache : Settled(cache)' = Settled(cache)
  BY DEF Settled, ContentAt

\* Less need be shown, more has failed.
LEMMA ShowsLess ==
    ASSUME NEW has, NEW writes, NEW failed, Shows(has, writes, failed),
           NEW fewer \in SUBSET writes, NEW more, failed \subseteq more
    PROVE  Shows(has, fewer, more)
  BY DEF Shows

\* What a get is shown shows what is known.
LEMMA ShowsLocal ==
    ASSUME NEW c \in Clients, NEW r \in SUBSET OwnWrites
    PROVE  /\ LocalView(c).has \subseteq KnownTo(c)
           /\ Shows(LocalView(c).has, KnownTo(c) \cup r, r)
<1>1. c.queue \in Seq(OwnWrites)
  BY DEF Clients
<1>2. Elements(c.queue) \subseteq OwnWrites
  BY <1>1 DEF Elements
<1>3. CASE Found(c.cache)
  <2>1. KnownTo(c) = c.cache.has \cup Elements(c.queue)
    BY <1>3 DEF KnownTo, Settled
  <2>2. LocalView(c).has = c.cache.has \cup Elements(c.queue)
    BY <1>3 DEF LocalView
  <2> QED
    BY <1>3, <2>1, <2>2 DEF Shows, Found
<1>4. CASE ~ Found(c.cache)
  <2>1. KnownTo(c) = (ContentAt(c.cache.version) \cap OwnWrites) \cup Elements(c.queue)
    BY <1>4 DEF KnownTo, Settled
  <2>2. LocalView(c).has = {}
    BY <1>4 DEF LocalView
  <2> QED
    BY <1>2, <2>1, <2>2 DEF Shows
<1> QED
  BY <1>3, <1>4

\* Old versions keep their content when the log grows.
LEMMA ContentKept ==
    ASSUME log \in Seq(Writes \cup {NoDocument}), NEW w \in Writes, log' = Append(log, w)
    PROVE  /\ Len(log) \in Nat /\ Len(log') = Len(log) + 1 /\ log'[Len(log) + 1] = w
           /\ \A i \in 1..Len(log) : log'[i] = log[i]
           /\ \A v \in Nat : v <= Len(log) => ContentAt(v)' = ContentAt(v)
<1>1. /\ Len(log) \in Nat /\ Len(log') = Len(log) + 1 /\ log'[Len(log) + 1] = w
      /\ \A i \in 1..Len(log) : log'[i] = log[i]
  OBVIOUS
<1>2. ASSUME NEW v \in Nat, v <= Len(log)
      PROVE  ContentAt(v)' = ContentAt(v)
  BY <1>1, <1>2 DEF ContentAt
<1> QED
  BY <1>1, <1>2

\* An update of the server wins over an older cached document, which it
\* contains; so nothing that was shown is taken back.
LEMMA PopulateFacts ==
    ASSUME IInv, CacheInv, NEW doc \in Documents, doc.has = ContentAt(doc.version),
           doc.version <= Len(log), NEW new, new = PopulateDocumentChanges(client.cache, doc)
    PROVE  /\ Settled(client.cache) \subseteq Settled(new)
           /\ client.cache.version <= new.version /\ doc.version <= new.version
           /\ new = client.cache \/ ~ new.committed
           /\ CacheOK(new, client.queue, applied)
<1> DEFINE old == client.cache
<1>1. /\ old \in [version : Nat, has : SUBSET Writes, committed : BOOLEAN]
      /\ doc # Nil /\ doc.version \in Nat
  BY NilRecordAssumption DEF IInv, TypeOK, Clients, Documents
<1>2. CacheOK(old, client.queue, applied)
  BY DEF CacheInv
<1>3. CASE \/ old.version = 0
           \/ doc.version > old.version
           \/ doc.version = old.version /\ old.committed
  <2>1. new = [version |-> doc.version, has |-> doc.has, committed |-> FALSE]
    BY <1>1, <1>3 DEF PopulateDocumentChanges
  <2>2. old.version <= doc.version /\ old.version \in Nat
    BY <1>1, <1>3
  <2>3. old.has \subseteq doc.has /\ ContentAt(old.version) \subseteq doc.has
    <3>1. ContentAt(old.version) \subseteq ContentAt(doc.version)
      BY <1>1, <2>2, ContentGrows
    <3> QED
      BY <1>2, <3>1 DEF CacheOK
  <2>4. Settled(old) \subseteq Settled(new)
    <3>1. new.has = doc.has /\ new.version = doc.version
      BY <2>1
    <3> HIDE DEF old
    <3> QED
      BY <2>3, <3>1 DEF Settled, Found
  <2>5. /\ new.version = doc.version /\ ~ new.committed /\ new.has = ContentAt(new.version)
        /\ new.version <= Len(log) /\ doc.version <= doc.version
    BY <1>1, <2>1
  <2>6. CacheOK(new, client.queue, applied)
    BY ONLY <1>2, <2>5 DEF CacheOK
  <2> QED
    BY <2>2, <2>4, <2>5, <2>6
<1>4. CASE ~ \/ old.version = 0
             \/ doc.version > old.version
             \/ doc.version = old.version /\ old.committed
  <2>1. new = old
    BY <1>1, <1>4 DEF PopulateDocumentChanges
  <2>2. doc.version <= old.version /\ old.version <= old.version
    BY <1>1, <1>4
  <2> QED
    BY <1>2, <2>1, <2>2
<1> QED
  BY <1>3, <1>4

SameTokens(c, d) ==
    /\ d.remote_keys = c.remote_keys /\ d.resume_token = c.resume_token
    /\ d.last_remote_snapshot = c.last_remote_snapshot

\* The first write of the queue has been answered; what is left of it.
LEMMA HeadAnswered ==
    ASSUME IInv, CacheInv, applied # <<>>, NEW write, write = Head(client.queue),
           NEW queue, queue = Tail(client.queue), NEW rest, rest = Tail(applied)
    PROVE  /\ queue \in Seq(OwnWrites) /\ rest \in Seq(Nat)
           /\ write \in OwnWrites /\ write = client.queue[1]
           /\ 1 \in DOMAIN applied /\ Head(applied) = applied[1] /\ Head(applied) \in Nat
           /\ Elements(client.queue) = {write} \cup Elements(queue)
           /\ \A i \in DOMAIN rest : /\ i \in Nat /\ i + 1 \in DOMAIN applied /\ 1 < i + 1
                                     /\ rest[i] = applied[i + 1]
                                     /\ queue[i] = client.queue[i + 1]
           /\ \A i \in DOMAIN rest : rest[i] # Refusal =>
                 rest[i] \in 2..Len(log) /\ log[rest[i]] = queue[i]
           /\ \A i, j \in DOMAIN rest :
                 i < j /\ rest[i] # Refusal /\ rest[j] # Refusal => rest[i] < rest[j]
<1>1. /\ client \in Clients /\ client.queue \in Seq(OwnWrites)
      /\ applied \in Seq(Nat) /\ Len(applied) <= Len(client.queue)
  BY DEF IInv, TypeOK, Clients
<1>2. client.queue # <<>>
  BY <1>1
<1>3. /\ 1 \in DOMAIN applied /\ Head(applied) = applied[1] /\ Head(applied) \in Nat
      /\ rest \in Seq(Nat) /\ queue \in Seq(OwnWrites)
      /\ write \in OwnWrites /\ write = client.queue[1]
      /\ \A i \in DOMAIN rest : /\ i \in Nat /\ i + 1 \in DOMAIN applied /\ 1 < i + 1
                                /\ rest[i] = applied[i + 1]
                                /\ queue[i] = client.queue[i + 1]
  BY <1>1, <1>2, SMTT(40)
<1>4. Elements(client.queue) = {write} \cup Elements(queue)
  <2>1. ASSUME NEW i \in DOMAIN client.queue, i # 1
        PROVE  i - 1 \in DOMAIN queue /\ queue[i - 1] = client.queue[i]
    <3>1. i \in 1..Len(client.queue) /\ DOMAIN queue = 1..(Len(client.queue) - 1) /\ i - 1 + 1 = i
      BY <1>1, <1>2
    <3>2. i - 1 \in 1..(Len(client.queue) - 1)
      BY <1>1, <2>1, <3>1
    <3> QED
      BY <1>1, <1>2, <3>1, <3>2
  <2>2. 1 \in DOMAIN client.queue
    BY <1>1, <1>2
  <2>3. \A i \in DOMAIN queue : i + 1 \in DOMAIN client.queue /\ queue[i] = client.queue[i + 1]
    BY <1>1, <1>2
  <2>4. write = client.queue[1]
    BY <1>3
  <2>5. ASSUME NEW x \in Elements(client.queue) PROVE x \in {write} \cup Elements(queue)
    <3>1. PICK i \in DOMAIN client.queue : x = client.queue[i]
      BY DEF Elements
    <3> QED
      BY ONLY <2>1, <2>4, <3>1 DEF Elements
  <2>6. ASSUME NEW x \in {write} \cup Elements(queue) PROVE x \in Elements(client.queue)
    BY ONLY <2>2, <2>3, <2>4, <2>6 DEF Elements
  <2> QED
    BY ONLY <2>5, <2>6
<1>5. /\ \A i \in DOMAIN applied : applied[i] # Refusal =>
            applied[i] \in 2..Len(log) /\ log[applied[i]] = client.queue[i]
      /\ \A i, j \in DOMAIN applied :
            i < j /\ applied[i] # Refusal /\ applied[j] # Refusal => applied[i] < applied[j]
  BY DEF CacheInv, CacheOK
<1>6. /\ \A i \in DOMAIN rest : rest[i] # Refusal => rest[i] \in 2..Len(log) /\ log[rest[i]] = queue[i]
      /\ \A i, j \in DOMAIN rest :
            i < j /\ rest[i] # Refusal /\ rest[j] # Refusal => rest[i] < rest[j]
  <2>1. \A i \in DOMAIN rest : /\ i \in Nat /\ i + 1 \in DOMAIN applied
                              /\ rest[i] = applied[i + 1] /\ queue[i] = client.queue[i + 1]
    BY <1>3
  <2>2. \A i, j \in DOMAIN rest : i < j => i + 1 < j + 1
    BY ONLY <2>1
  <2> QED
    BY ONLY <1>5, <2>1, <2>2
<1> QED
  BY <1>3, <1>4, <1>6

\* The acknowledged write was known as a queued one and is now in the cache:
\* it is added to an older document, a newer one has it, and of an unknown one
\* it is a version that has it.
LEMMA AckFacts ==
    ASSUME IInv, CacheInv, applied # <<>>, Head(applied) # Refusal,
           NEW c, c = AcknowledgeBatch(client, Head(applied))
    PROVE  /\ OnlyStore(client, c) /\ SameTokens(client, c)
           /\ KnownTo(client) \subseteq KnownTo(c)
           /\ Found(c.cache) => KnownTo(c) = KnownTo(client)
           /\ client.cache.version <= c.cache.version
           /\ CacheOK(c.cache, c.queue, Tail(applied))
<1> DEFINE version == Head(applied)
           write == Head(client.queue)
           queue == Tail(client.queue)
           rest == Tail(applied)
           has == IF Found(client.cache) THEN client.cache.has \cup {write} ELSE {}
           doc == IF client.cache.version < version
                  THEN [version |-> version, has |-> has, committed |-> TRUE]
                  ELSE client.cache
<1>1. /\ client \in Clients /\ client.queue \in Seq(OwnWrites)
      /\ client.cache \in [version : Nat, has : SUBSET Writes, committed : BOOLEAN]
  BY DEF IInv, TypeOK, Clients
<1>2. c = [client EXCEPT !.cache = doc, !.queue = queue]
  BY <1>1 DEF AcknowledgeBatch, Clients
<1>3. /\ queue \in Seq(OwnWrites) /\ rest \in Seq(Nat)
      /\ write \in OwnWrites /\ write = client.queue[1]
      /\ 1 \in DOMAIN applied /\ version = applied[1] /\ version \in Nat
      /\ Elements(client.queue) = {write} \cup Elements(queue)
      /\ \A i \in DOMAIN rest : /\ i \in Nat /\ i + 1 \in DOMAIN applied /\ 1 < i + 1
                                /\ rest[i] = applied[i + 1]
                                /\ queue[i] = client.queue[i + 1]
      /\ \A i \in DOMAIN rest : rest[i] # Refusal =>
            rest[i] \in 2..Len(log) /\ log[rest[i]] = queue[i]
      /\ \A i, j \in DOMAIN rest :
            i < j /\ rest[i] # Refusal /\ rest[j] # Refusal => rest[i] < rest[j]
  BY HeadAnswered
<1>4. OwnWrites \subseteq Writes
  BY BoundsAssumption, SMTT(30) DEF OwnWrites, Writes, Creation
<1>5. CacheOK(client.cache, client.queue, applied) /\ version # Refusal
  BY DEF CacheInv
<1> HIDE DEF version, write, queue, rest
<1>6. version \in 2..Len(log) /\ log[version] = write /\ write \in ContentAt(version)
  BY <1>3, <1>5 DEF CacheOK, ContentAt
<1>7. \A i \in DOMAIN rest : rest[i] # Refusal => version < rest[i]
  BY <1>3, <1>5 DEF CacheOK
<1>8. CASE client.cache.version < version
  <2>1. has \in SUBSET Writes /\ (Found(client.cache) => has = client.cache.has \cup {write})
        /\ (~ Found(client.cache) => has = {})
    BY <1>1, <1>3, <1>4
  <2> HIDE DEF has
  <2>2. /\ doc.version = version /\ doc.has = has /\ doc.committed
        /\ doc \in [version : Nat, has : SUBSET Writes, committed : BOOLEAN]
    BY <1>3, <1>8, <2>1
  <2> HIDE DEF doc
  <2>3. ContentAt(client.cache.version) \subseteq ContentAt(version)
    BY <1>1, <1>3, <1>8, ContentGrows
  <2>4. has \subseteq ContentAt(version)
    BY <1>5, <1>6, <2>1, <2>3 DEF CacheOK
  <2>5. version <= Len(log) /\ client.cache.version <= version
    BY <1>1, <1>3, <1>6, <1>8
  <2>6. CacheOK(doc, queue, rest)
    BY <1>3, <1>7, <2>2, <2>4, <2>5 DEF CacheOK
  <2>7. c \in Clients /\ c.cache = doc /\ c.queue = queue
    BY <1>1, <1>2, <1>3, <2>2, ZenonT(60) DEF Clients
  <2>8. /\ SameRemote(client, c) /\ SameTracker(client, c)
        /\ SameViews(client, c) /\ SameTokens(client, c)
    BY <1>1, <1>2 DEF Clients, SameRemote, SameTracker, SameViews, SameTokens
  <2>9. Settled(client.cache) \cup {write} \subseteq Settled(doc)
    BY <1>3, <1>6, <2>1, <2>2, <2>3 DEF Settled, Found
  <2>10. Found(doc) => Settled(doc) = Settled(client.cache) \cup {write}
    BY <2>1, <2>2 DEF Settled, Found
  <2> QED
    BY <1>3, <2>2, <2>5, <2>6, <2>7, <2>8, <2>9, <2>10 DEF OnlyStore, KnownTo, rest
<1>9. CASE ~ (client.cache.version < version)
  <2>1. doc = client.cache
    BY <1>9
  <2> HIDE DEF doc, has
  <2>2. version <= client.cache.version /\ client.cache.version <= client.cache.version
    BY <1>1, <1>3, <1>9
  <2>3. ~ client.cache.committed
    BY <1>3, <1>5, <1>9 DEF CacheOK
  <2>4. write \in client.cache.has
    <3>1. ContentAt(version) \subseteq ContentAt(client.cache.version)
      BY <1>1, <1>3, <2>2, ContentGrows
    <3> QED
      BY <1>5, <1>6, <2>3, <3>1 DEF CacheOK
  <2>5. CacheOK(doc, queue, rest)
    BY <1>3, <1>5, <2>1, <2>3 DEF CacheOK
  <2>6. c \in Clients /\ c.cache = client.cache /\ c.queue = queue
    BY <1>1, <1>2, <1>3, <2>1 DEF Clients
  <2>7. /\ SameRemote(client, c) /\ SameTracker(client, c)
        /\ SameViews(client, c) /\ SameTokens(client, c)
    BY <1>1, <1>2 DEF Clients, SameRemote, SameTracker, SameViews, SameTokens
  <2>8. KnownTo(c) = KnownTo(client)
    <3>1. write \in Settled(client.cache)
      BY <2>4 DEF Settled, Found
    <3> QED
      BY <1>3, <2>6, <3>1 DEF KnownTo
  <2> QED
    BY <2>1, <2>2, <2>5, <2>6, <2>7, <2>8 DEF OnlyStore, rest
<1> QED
  BY <1>8, <1>9

\* The refused write was known as a queued one and is now a failed one.
LEMMA RejectFacts ==
    ASSUME IInv, CacheInv, applied # <<>>, Head(applied) = Refusal, NEW c, c = RejectBatch(client)
    PROVE  /\ OnlyStore(client, c) /\ SameTokens(client, c) /\ c.cache = client.cache
           /\ KnownTo(c) \cup {Head(client.queue)} = KnownTo(client)
           /\ Head(client.queue) \in OwnWrites
           /\ CacheOK(c.cache, c.queue, Tail(applied))
<1> DEFINE write == Head(client.queue)
           queue == Tail(client.queue)
           rest == Tail(applied)
<1>1. /\ queue \in Seq(OwnWrites) /\ rest \in Seq(Nat)
      /\ write \in OwnWrites /\ write = client.queue[1]
      /\ 1 \in DOMAIN applied /\ Head(applied) = applied[1] /\ Head(applied) \in Nat
      /\ Elements(client.queue) = {write} \cup Elements(queue)
      /\ \A i \in DOMAIN rest : /\ i \in Nat /\ i + 1 \in DOMAIN applied /\ 1 < i + 1
                                /\ rest[i] = applied[i + 1]
                                /\ queue[i] = client.queue[i + 1]
      /\ \A i \in DOMAIN rest : rest[i] # Refusal =>
            rest[i] \in 2..Len(log) /\ log[rest[i]] = queue[i]
      /\ \A i, j \in DOMAIN rest :
            i < j /\ rest[i] # Refusal /\ rest[j] # Refusal => rest[i] < rest[j]
  BY HeadAnswered
<1>2. client \in Clients /\ CacheOK(client.cache, client.queue, applied)
  BY DEF IInv, TypeOK, CacheInv
<1> HIDE DEF write, queue, rest
<1>3. c = [client EXCEPT !.queue = queue]
  BY <1>2 DEF RejectBatch, Clients, queue
<1>4. c \in Clients /\ c.cache = client.cache /\ c.queue = queue
  BY <1>1, <1>2, <1>3 DEF Clients
<1>5. /\ SameRemote(client, c) /\ SameTracker(client, c)
      /\ SameViews(client, c) /\ SameTokens(client, c)
  BY <1>2, <1>3 DEF Clients, SameRemote, SameTracker, SameViews, SameTokens
<1>6. CacheOK(c.cache, queue, rest)
  BY <1>1, <1>2, <1>4 DEF CacheOK
<1>7. KnownTo(c) \cup {write} = KnownTo(client)
  BY <1>1, <1>4 DEF KnownTo
<1> QED
  BY <1>1, <1>4, <1>5, <1>6, <1>7 DEF OnlyStore, rest, write

-----------------------------------------------------------------------------
(* The server's log grows.                                                  *)

LEMMA CacheLogGrows ==
    ASSUME IInv, CacheInv, NEW w \in Writes, log' = Append(log, w), UNCHANGED client,
           \/ UNCHANGED applied
           \/ /\ Len(applied) < Len(client.queue) /\ w = client.queue[Len(applied) + 1]
              /\ applied' = Append(applied, Len(log) + 1)
    PROVE  CacheInv'
<1> DEFINE n == Len(log)
           cache == client.cache
           queue == client.queue
<1>1. /\ cache \in [version : Nat, has : SUBSET Writes, committed : BOOLEAN]
      /\ log \in Seq(Writes \cup {NoDocument}) /\ applied \in Seq(Nat) /\ Len(applied) \in Nat
  <2>1. client \in Clients /\ log \in Seq(Writes \cup {NoDocument}) /\ applied \in Seq(Nat)
    BY DEF IInv, TypeOK
  <2> QED
    BY <2>1 DEF Clients
<1>2. /\ n \in Nat /\ Len(log') = n + 1 /\ log'[n + 1] = w
      /\ \A i \in 1..n : log'[i] = log[i]
      /\ \A v \in Nat : v <= n => ContentAt(v)' = ContentAt(v)
  BY <1>1, ContentKept
<1>3. CacheOK(cache, queue, applied)
  BY DEF CacheInv
<1>4. n \in DOMAIN log
  BY <1>1 DEF IInv, TypeOK
<1> HIDE DEF n, cache, queue
<1>5. /\ cache.version <= n /\ cache.version <= Len(log') /\ ContentAt(cache.version)' = ContentAt(cache.version)
      /\ cache.version \in Nat /\ cache.version < n + 1
  <2>1. cache.version <= n /\ cache.version \in Nat
    BY <1>1, <1>3 DEF CacheOK, n
  <2>2. cache.version <= n + 1 /\ cache.version < n + 1
    BY <1>2, <2>1
  <2>3. cache' = cache
    BY DEF cache
  <2> QED
    BY <1>2, <2>1, <2>2, <2>3 DEF ContentAt
<1>6. \A i \in DOMAIN applied : applied[i] # Refusal =>
          applied[i] \in 2..Len(log') /\ log'[applied[i]] = queue[i] /\ applied[i] < n + 1
  BY <1>1, <1>2, <1>3 DEF CacheOK, n
<1>7. CASE UNCHANGED applied
  <2>1. CacheInv' <=> CacheOK(cache, queue, applied)'
    BY DEF CacheInv, cache, queue
  <2>2. cache' = cache /\ queue' = queue
    BY DEF cache, queue
  <2> QED
    BY <1>3, <1>5, <1>6, <1>7, <2>1, <2>2 DEF CacheOK
<1>8. CASE /\ Len(applied) < Len(queue) /\ w = queue[Len(applied) + 1]
           /\ applied' = Append(applied, n + 1)
  <2>1. /\ DOMAIN applied' = 1..(Len(applied) + 1) /\ DOMAIN applied = 1..Len(applied)
        /\ applied'[Len(applied) + 1] = n + 1
        /\ \A i \in DOMAIN applied : applied'[i] = applied[i]
    BY <1>1, <1>2, <1>8
  <2>2. \A i \in DOMAIN applied' : i \in DOMAIN applied \/ i = Len(applied) + 1
    BY <1>1, <2>1
  <2>3. n >= 1 /\ n + 1 \in 2..Len(log')
    BY <1>1, <1>2, <1>4 DEF n
  <2>4. \A i \in DOMAIN applied' : applied'[i] # Refusal =>
            applied'[i] \in 2..Len(log') /\ log'[applied'[i]] = queue[i]
    <3>1. ASSUME NEW i \in DOMAIN applied, applied'[i] # Refusal
          PROVE  applied'[i] \in 2..Len(log') /\ log'[applied'[i]] = queue[i]
      BY <1>6, <2>1, <3>1
    <3>2. applied'[Len(applied) + 1] = n + 1 /\ log'[n + 1] = queue[Len(applied) + 1]
      BY <1>2, <1>8, <2>1
    <3> QED
      BY <2>2, <2>3, <3>1, <3>2
  <2>5. ASSUME NEW i \in DOMAIN applied', NEW j \in DOMAIN applied', i < j,
               applied'[i] # Refusal, applied'[j] # Refusal
        PROVE  applied'[i] < applied'[j]
    <3>1. i \in DOMAIN applied
      BY <1>1, <2>1, <2>2, <2>5
    <3>2. CASE j \in DOMAIN applied
      BY <1>3, <2>1, <2>5, <3>1, <3>2 DEF CacheOK
    <3>3. CASE j = Len(applied) + 1
      BY <1>6, <2>1, <2>5, <3>1, <3>3
    <3> QED
      BY <2>2, <3>2, <3>3
  <2>6. cache.committed => \A i \in DOMAIN applied' :
            applied'[i] # Refusal => cache.version < applied'[i]
    BY <1>3, <1>5, <2>1, <2>2 DEF CacheOK
  <2>7. CacheInv' <=> CacheOK(cache, queue, applied)'
    BY DEF CacheInv, cache, queue
  <2>8. cache' = cache /\ queue' = queue
    BY DEF cache, queue
  <2> QED
    BY <1>3, <1>5, <2>4, <2>5, <2>6, <2>7, <2>8 DEF CacheOK
<1> QED
  BY <1>7, <1>8 DEF n, queue

\* What the other invariants say of contents is about old versions.
LEMMA LogStep ==
    ASSUME IInv, ReadsInv, NEW w \in Writes, log' = Append(log, w),
           UNCHANGED <<client, worker, main, appVars, watched, target, refusing, fromServer>>,
           \/ UNCHANGED applied
           \/ /\ Len(applied) < Len(client.queue) /\ w = client.queue[Len(applied) + 1]
              /\ applied' = Append(applied, Len(log) + 1)
    PROVE  ReadsInv'
<1>1. CacheInv'
  BY CacheLogGrows DEF ReadsInv
<1>2. /\ watched \in Nat /\ watched <= Len(log)
      /\ \A v \in Nat : v <= watched => ContentAt(v)' = ContentAt(v)
  <2>1. log \in Seq(Writes \cup {NoDocument}) /\ watched \in DOMAIN log
    BY DEF IInv, TypeOK
  <2>2. watched \in Nat /\ watched <= Len(log) /\ Len(log) \in Nat
    BY <2>1
  <2>3. \A v \in Nat : v <= Len(log) => ContentAt(v)' = ContentAt(v)
    BY <2>1, ContentKept
  <2> QED
    BY <2>2, <2>3
<1>3. \A doc : Delivered(doc) => Delivered(doc)'
  BY <1>2 DEF Delivered
<1>4. DeliveryInv'
  <2>1. DeliveryInv
    BY DEF ReadsInv
  <2>2. UNCHANGED <<client, fromServer, watched>>
    OBVIOUS
  <2> QED
    BY ONLY <1>3, <2>1, <2>2 DEF DeliveryInv, IsActiveTarget
<1>5. WatchInv'
  <2>1. WatchInv
    BY DEF ReadsInv
  <2>2. UNCHANGED <<client, fromServer>>
    OBVIOUS
  <2> QED
    BY ONLY <2>1, <2>2 DEF WatchInv, Live, Precedes, DocumentAt, Replies
<1>6. KnownInv'
  <2>1. Known' = Known /\ LocalView(client)' = LocalView(client)
    <3>1. client \in Clients /\ log \in Seq(Writes \cup {NoDocument})
      BY DEF IInv, TypeOK
    <3>2. client.cache.version \in Nat /\ client.cache.version <= Len(log)
      BY <3>1 DEF Clients, ReadsInv, CacheInv, CacheOK
    <3>3. ContentAt(client.cache.version)' = ContentAt(client.cache.version)
      BY <3>1, <3>2, ContentKept
    <3> QED
      BY <3>3 DEF Known, KnownTo, Settled, Elements, LocalView, appVars
  <2>2. KnownInv
    BY DEF ReadsInv
  <2>3. /\ UNCHANGED <<client, worker, main>>
        /\ UNCHANGED <<seen, mine, must, refused>>
    BY DEF appVars
  <2> QED
    BY ONLY <2>1, <2>2, <2>3 DEF KnownInv, ViewShows, Shows, Elements
<1>7. \A s \in Snapshots : s.since <= watched /\ Fresh(s) => Fresh(s)'
  BY <1>2 DEF Fresh, Snapshots
<1>8. FreshInv'
  <2>1. /\ client.snapshot # Nil => client.snapshot \in Snapshots /\ client.snapshot.since <= watched
        /\ \A e \in Elements(main) : e.snapshot # Nil => e.snapshot \in Snapshots /\ e.snapshot.since <= watched
    <3>1. client.snapshot # Nil => client.snapshot \in Snapshots /\ client.snapshot.since <= watched
      BY DEF IInv, TypeOK, SinceInv, Clients
    <3>2. \A e \in Elements(main) : e \in Events
      BY DEF IInv, TypeOK, Elements
    <3> QED
      BY <3>1, <3>2 DEF IInv, SinceInv, Events
  <2>2. Elements(main)' = Elements(main)
    BY DEF Elements
  <2> QED
    BY <1>7, <2>1, <2>2 DEF ReadsInv, FreshInv
<1> QED
  BY <1>1, <1>4, <1>5, <1>6, <1>8 DEF ReadsInv

LEMMA ServerCommitReads == IInv /\ ReadsInv /\ ServerCommit => ReadsInv'
<1> SUFFICES ASSUME IInv, ReadsInv, ServerCommit PROVE ReadsInv'
  OBVIOUS
<1> DEFINE w == client.queue[Len(applied) + 1]
<1>1. /\ Len(applied) < Len(client.queue) /\ log' = Append(log, w)
      /\ applied' = Append(applied, Len(log) + 1)
      /\ UNCHANGED <<client, worker, main, appVars, watched, target, refusing, fromServer>>
  BY DEF ServerCommit
<1>2. client.queue \in Seq(OwnWrites) /\ applied \in Seq(Nat)
  BY DEF IInv, TypeOK, Clients
<1>3. w \in OwnWrites
  BY <1>1, <1>2
<1>4. w \in Writes
  BY <1>3, BoundsAssumption, SMTT(30) DEF OwnWrites, Writes, Creation
<1> HIDE DEF w
<1>5. w = client.queue[Len(applied) + 1]
  BY DEF w
<1> QED
  BY <1>1, <1>4, <1>5, LogStep

\* Nothing is new but a refusal that the client has not heard of.
LEMMA ServerRefuseReads == IInv /\ ReadsInv /\ ServerRefuse => ReadsInv'
<1> SUFFICES ASSUME IInv, ReadsInv, ServerRefuse PROVE ReadsInv'
  OBVIOUS
<1>1. /\ applied' = Append(applied, Refusal)
      /\ UNCHANGED <<client, worker, main, log, watched, fromServer>>
      /\ UNCHANGED <<seen, mine, must, refused>>
  BY DEF ServerRefuse, appVars
<1>2. applied \in Seq(Nat)
  BY DEF IInv, TypeOK
<1>3. \A i \in DOMAIN applied' : applied'[i] # Refusal =>
          i \in DOMAIN applied /\ applied'[i] = applied[i]
  BY <1>1, <1>2
<1>4. /\ \A v : ContentAt(v)' = ContentAt(v)
      /\ \A cache : Settled(cache)' = Settled(cache)
  BY <1>1, ContentSame, SettledSame
<1>5. CacheInv'
  <2>1. CacheOK(client.cache, client.queue, applied)
    BY DEF ReadsInv, CacheInv
  <2>2. UNCHANGED <<client, log>>
    BY <1>1
  <2> QED
    BY ONLY <1>3, <1>4, <2>1, <2>2 DEF CacheInv, CacheOK
<1>6. DeliveryInv' /\ WatchInv'
  BY <1>1, <1>4 DEF ReadsInv, DeliveryInv, Delivered, WatchInv, Live, Precedes, DocumentAt, Replies
<1>7. KnownInv'
  <2>1. Known' = Known
    BY <1>1, <1>4 DEF Known, KnownTo, Elements
  <2> QED
    BY <1>1, <2>1 DEF ReadsInv, KnownInv, ViewShows, Shows, LocalView, Elements
<1>8. FreshInv'
  BY <1>1, <1>4 DEF ReadsInv, FreshInv, Fresh, Elements
<1> QED
  BY <1>5, <1>6, <1>7, <1>8 DEF ReadsInv

LEMMA ForeignWriteReads == IInv /\ ReadsInv /\ ForeignWrite => ReadsInv'
<1> SUFFICES ASSUME IInv, ReadsInv, ForeignWrite PROVE ReadsInv'
  OBVIOUS
<1> DEFINE w == MaxWrites + events
<1>1. /\ log' = Append(log, w) /\ UNCHANGED applied /\ events > 0
      /\ UNCHANGED <<client, worker, main, appVars, watched, target, refusing, fromServer>>
  BY DEF ForeignWrite, External
<1>2. w \in Writes
  BY <1>1, BoundsAssumption, SMTT(30) DEF IInv, TypeOK, Writes, Creation
<1> HIDE DEF w
<1> QED
  BY <1>1, <1>2, LogStep

LEMMA WatchAdvanceReads == IInv /\ ReadsInv /\ WatchAdvance => ReadsInv'
<1> SUFFICES ASSUME IInv, ReadsInv, WatchAdvance PROVE ReadsInv'
  OBVIOUS
<1>1. /\ watched' = watched + 1
      /\ UNCHANGED <<client, worker, main, appVars, log, applied, fromServer>>
  BY DEF WatchAdvance
<1>2. watched \in Nat /\ \A v : ContentAt(v)' = ContentAt(v)
  <2>1. watched \in Nat
    BY DEF IInv, TypeOK
  <2> QED
    BY <1>1, <2>1, ContentSame
<1>3. CacheInv'
  BY <1>1, <1>2 DEF ReadsInv, CacheInv, CacheOK
<1>4. DeliveryInv'
  <2>1. \A v \in Nat : v <= watched => v <= watched'
    BY <1>1, <1>2
  <2>2. \A k \in Nat : 2..watched \subseteq 2..watched' /\ 1..watched \subseteq 1..watched'
    BY <1>1, <1>2
  <2>3. \A doc : Delivered(doc) => Delivered(doc)'
    BY <1>2, <2>2 DEF Delivered
  <2>4. client.last_remote_snapshot \in Nat
    BY DEF IInv, TypeOK, Clients
  <2> QED
    BY <1>1, <2>1, <2>2, <2>3, <2>4 DEF ReadsInv, DeliveryInv
<1>5. WatchInv'
  BY <1>1 DEF ReadsInv, WatchInv, Live, Precedes, DocumentAt, Replies
<1>6. KnownInv'
  <2>1. Known' = Known
    <3>1. Settled(client.cache)' = Settled(client.cache)
      BY <1>1, SettledSame
    <3> QED
      BY <1>1, <3>1 DEF Known, KnownTo, Elements, appVars
  <2>2. UNCHANGED <<seen, mine, must, refused>>
    BY <1>1 DEF appVars
  <2> QED
    BY <1>1, <2>1, <2>2 DEF ReadsInv, KnownInv, ViewShows, Shows, LocalView, Elements
<1>7. FreshInv'
  BY <1>1, <1>2 DEF ReadsInv, FreshInv, Fresh, Elements
<1> QED
  BY <1>3, <1>4, <1>5, <1>6, <1>7 DEF ReadsInv

-----------------------------------------------------------------------------
(* What the client tells.                                                   *)

\* Fresh snapshots that show what A knows, up to the writes r that failed,
\* and nothing but B.
Tellable(A, B, r) ==
    {s \in Snapshots : s.since <= watched /\ Shows(s.has, A, r) /\ s.has \subseteq B /\ Fresh(s)}

LEMMA TellableSound ==
    ASSUME IInv, ReadsInv, NEW B, Known \subseteq B, NEW r, refused \subseteq r,
           NEW L \in SUBSET Gets, client.listeners \subseteq L
    PROVE  Sound(client, L, Tellable(Known, B, r)) /\ TrackerOK(client)
<1> DEFINE S == Tellable(Known, B, r)
<1>1. TrackerOK(client) /\ client \in Clients /\ client.posts = <<>>
  BY SoundNow DEF IInv, TypeOK
<1>2. S \subseteq Snapshots /\ L \subseteq Gets
  BY DEF Tellable
<1>3. client.view # Nil => /\ Shows(client.view.has, Known, r) /\ client.view.has \subseteq B
                           /\ client.view.since <= watched
  <2>1. client.view # Nil => /\ Shows(client.view.has, Known, refused)
                             /\ client.view.has \subseteq Known
    BY DEF ReadsInv, KnownInv, ViewShows
  <2>2. client.view # Nil => Shows(client.view.has, Known, r)
    BY <2>1, ShowsLess
  <2> QED
    BY <2>1, <2>2 DEF IInv, SinceInv
<1>4. client.snapshot \in S \cup {Nil}
  <2>1. ASSUME client.snapshot # Nil PROVE client.snapshot \in S
    <3>1. client.snapshot \in Snapshots /\ client.snapshot.since <= watched
      BY <1>1, <2>1 DEF IInv, SinceInv, Clients
    <3>2. client.view # Nil /\ client.snapshot.has = client.view.has
      BY <2>1 DEF IInv, InStep
    <3> QED
      BY <1>3, <2>1, <3>1, <3>2 DEF Tellable, ReadsInv, FreshInv
  <2> QED
    BY <2>1
<1>5. client.posts \in Seq(Batches(L, S))
  BY <1>1
<1>6. CachedIn(client, S)
  BY <1>3 DEF CachedIn, Tellable, Fresh
<1> QED
  BY <1>1, <1>2, <1>4, <1>5, <1>6 DEF Sound, Tells

\* The tasks of the worker queue before and after one of them is taken.
LEMMA WaitingTaken ==
    ASSUME IInv, KnownInv, UNCHANGED <<must, mine>>, NEW B, Known \subseteq B,
           \/ UNCHANGED worker
           \/ /\ worker # <<>> /\ worker' = Tail(worker)
              /\ Head(worker).type = "write" => Head(worker).write \in B
    PROVE  /\ \A w \in mine : w \in B \/ [type |-> "write", write |-> w] \in Elements(worker')
           /\ \A i \in DOMAIN worker' : worker'[i].type = "add" => \A w \in must[worker'[i].get] :
                 w \in B \/ \E j \in 1..(i - 1) : worker'[j] = [type |-> "write", write |-> w]
<1> DEFINE write(w) == [type |-> "write", write |-> w]
<1>1. /\ \A w \in mine : w \in B \/ write(w) \in Elements(worker)
      /\ \A i \in DOMAIN worker : worker[i].type = "add" => \A w \in must[worker[i].get] :
            w \in B \/ \E j \in 1..(i - 1) : worker[j] = write(w)
  BY DEF KnownInv
<1>2. CASE UNCHANGED worker
  BY <1>1, <1>2
<1>3. CASE /\ worker # <<>> /\ worker' = Tail(worker)
           /\ Head(worker).type = "write" => Head(worker).write \in B
  <2>1. worker \in Seq(Tasks) /\ Len(worker) \in Nat
    BY DEF IInv, TypeOK
  <2>2. /\ Head(worker) = worker[1]
        /\ \A i \in DOMAIN worker' : /\ i \in Nat /\ i >= 1 /\ i + 1 \in DOMAIN worker
                                     /\ worker'[i] = worker[i + 1]
    BY <1>3, <2>1
  <2>3. \A i \in DOMAIN worker : i \in Nat /\ (i = 1 \/ (i - 1 \in DOMAIN worker' /\ worker'[i - 1] = worker[i]))
    <3> TAKE i \in DOMAIN worker
    <3>1. i \in 1..Len(worker) /\ DOMAIN worker' = 1..(Len(worker) - 1)
      BY <1>3, <2>1
    <3>2. i \in Nat /\ (i = 1 \/ i - 1 \in 1..(Len(worker) - 1)) /\ i - 1 + 1 = i
      BY <2>1, <3>1
    <3> QED
      BY <2>2, <3>1, <3>2
  <2>4. \A w : worker[1] = write(w) => w \in B
    BY <1>3, <2>2
  <2>5. ASSUME NEW w \in mine, w \notin B
        PROVE  write(w) \in Elements(worker')
    <3>1. PICK i \in DOMAIN worker : worker[i] = write(w)
      BY <1>1, <2>5 DEF Elements
    <3>2. i # 1
      BY <2>4, <2>5, <3>1
    <3> QED
      BY <2>3, <3>1, <3>2 DEF Elements
  <2>6. ASSUME NEW i \in DOMAIN worker', worker'[i].type = "add",
               NEW w \in must[worker'[i].get], w \notin B
        PROVE  \E j \in 1..(i - 1) : worker'[j] = write(w)
    <3>1. PICK j \in 1..(i + 1 - 1) : worker[j] = write(w)
      BY <1>1, <2>2, <2>6
    <3>2. j # 1
      BY <2>4, <2>6, <3>1
    <3>3. j \in DOMAIN worker /\ i \in Nat /\ j \in Nat
      BY <2>1, <2>2
    <3>4. worker'[j - 1] = write(w)
      BY <2>3, <3>1, <3>2, <3>3
    <3>5. j - 1 \in 1..(i - 1)
      BY <3>2, <3>3
    <3> QED
      BY <3>4, <3>5
  <2> QED
    BY <2>5, <2>6
<1> QED
  BY <1>2, <1>3

\* A step of the client that takes nothing back and tells what it shows.
LEMMA KnownStep ==
    ASSUME IInv, ReadsInv, InStep(client)', UNCHANGED <<Reports, log, watched>>,
           NEW L \in SUBSET Gets, NEW B, B = Known', Known \subseteq B,
           NEW r, r = refused', refused \subseteq r,
           \A e \in Elements(main') :
               e \in Elements(main) \/ e \in Batches(L, Tellable(Known, B, r) \cup {Nil}),
           client'.listeners \subseteq L, \A g \in L : must[g] \subseteq Known,
           ViewShows(client', B, r),
           client'.snapshot \in Tellable(Known, B, r) \cup {Nil},
           client'.view # Nil /\ client'.view.current =>
               client'.view.since <= 1 \/ client'.view.since <= client'.cache.version,
           \/ UNCHANGED worker
           \/ /\ worker # <<>> /\ worker' = Tail(worker)
              /\ Head(worker).type = "write" => Head(worker).write \in B
    PROVE  KnownInv' /\ FreshInv'
<1>1. UNCHANGED <<must, mine, seen>>
  BY DEF Reports
<1>2. KnownInv
  BY DEF ReadsInv
<1>3. /\ \A w \in mine : w \in B \/ [type |-> "write", write |-> w] \in Elements(worker')
      /\ \A i \in DOMAIN worker' : worker'[i].type = "add" => \A w \in must[worker'[i].get] :
            w \in B \/ \E j \in 1..(i - 1) : worker'[j] = [type |-> "write", write |-> w]
  <2>1. UNCHANGED <<must, mine>>
    BY <1>1
  <2>2. /\ Known \subseteq B
        /\ \/ UNCHANGED worker
           \/ /\ worker # <<>> /\ worker' = Tail(worker)
              /\ Head(worker).type = "write" => Head(worker).write \in B
    OBVIOUS
  <2> QED
    BY ONLY IInv, <1>2, <2>1, <2>2, WaitingTaken
<1>4. \A s \in Snapshots : Fresh(s)' <=> Fresh(s)
  BY ContentSame DEF Fresh
<1>5. Tellable(Known, B, r) \subseteq Snapshots /\ Nil \notin Snapshots
  BY NilRecordAssumption DEF Tellable
<1>6. ASSUME NEW e \in Elements(main'), e.snapshot # Nil
      PROVE  /\ e.snapshot.has \subseteq B /\ Fresh(e.snapshot)'
             /\ \A g \in e.gets : Shows(e.snapshot.has, must[g], r)
  <2>1. CASE e \in Elements(main)
    <3>1. e \in Events
      BY <2>1 DEF IInv, TypeOK, Elements
    <3>2. e.snapshot \in Snapshots
      BY <1>6, <3>1 DEF Events
    <3>3. e.snapshot.has \subseteq Known /\ \A g \in e.gets : Shows(e.snapshot.has, must[g], refused)
      BY <1>2, <1>6, <2>1 DEF KnownInv
    <3>4. \A g \in e.gets : Shows(e.snapshot.has, must[g], r)
      BY <3>3, ShowsLess
    <3> QED
      BY <1>4, <1>6, <2>1, <3>2, <3>3, <3>4 DEF ReadsInv, FreshInv
  <2>2. CASE e \in Batches(L, Tellable(Known, B, r) \cup {Nil})
    <3>1. e.gets \subseteq L /\ e.snapshot \in Tellable(Known, B, r)
      BY <1>6, <2>2 DEF Batches
    <3>2. /\ e.snapshot \in Snapshots /\ Shows(e.snapshot.has, Known, r) /\ e.snapshot.has \subseteq B
          /\ Fresh(e.snapshot)
      BY <3>1 DEF Tellable
    <3>3. \A g \in e.gets : must[g] \subseteq Known
      BY <3>1
    <3>4. \A g \in e.gets : Shows(e.snapshot.has, must[g], r)
      BY <3>2, <3>3, ShowsLess
    <3> QED
      BY <1>4, <3>2, <3>4
  <2> QED
    BY <2>1, <2>2
<1>7. client'.snapshot # Nil => Fresh(client.snapshot)'
  <2>1. client'.snapshot # Nil => client'.snapshot \in Snapshots /\ Fresh(client'.snapshot)
    BY DEF Tellable
  <2> QED
    BY <2>1, ContentSame DEF Fresh
<1>8. KnownInv'
  <2>1. seen' \subseteq Known' /\ \A g \in client'.listeners : must'[g] \subseteq Known'
    BY <1>1, <1>2 DEF KnownInv
  <2>2. ViewShows(client, Known, refused)' <=> ViewShows(client', B, r)
    BY DEF ViewShows, Shows, LocalView, Elements
  <2>3. \A has, w : Shows(has, w, r)' <=> Shows(has, w, r)
    BY DEF Shows
  <2> QED
    BY <1>1, <1>3, <1>6, <2>1, <2>2 DEF KnownInv, Elements, Shows
<1>9. FreshInv'
  BY <1>6, <1>7 DEF FreshInv, Elements
<1> QED
  BY <1>8, <1>9

LEMMA ToldEvents ==
    ASSUME main \in Seq(Events), NEW L \in SUBSET Gets, NEW S \in SUBSET Snapshots, Told(L, S)
    PROVE  \A e \in Elements(main') : e \in Elements(main) \/ e \in Batches(L, S \cup {Nil})
<1>1. PICK p \in Seq(Batches(L, S)) : main' = main \o p
  BY DEF Told
<1>2. p \in Seq(Events)
  <2>1. Batches(L, S) \subseteq Events
    BY DEF Batches, Events
  <2> QED
    BY <2>1
<1>3. Elements(main') = Elements(main) \cup Elements(p)
  BY <1>1, <1>2, ElementsOfConcat
<1>4. \A e \in Elements(p) : e \in Batches(L, S \cup {Nil})
  <2>1. \A e \in Elements(p) : e \in Batches(L, S)
    BY DEF Elements
  <2>2. Batches(L, S) \subseteq Batches(L, S \cup {Nil})
    BY DEF Batches
  <2> QED
    BY <2>1, <2>2
<1> QED
  BY <1>3, <1>4

LEMMA CacheSame ==
    ASSUME CacheInv, UNCHANGED <<log, applied, refused>>, client'.cache = client.cache, client'.queue = client.queue
    PROVE  CacheInv' /\ Known' = Known
<1>1. Settled(client.cache)' = Settled(client.cache)
  BY SettledSame DEF Settled, ContentAt
<1> QED
  BY <1>1, ContentSame DEF CacheInv, CacheOK, Known, KnownTo, LocalView, Elements

\* The tracker and the remote store: nothing new is known.
LEMMA TracksKnown ==
    ASSUME IInv, ReadsInv, IInv', UNCHANGED <<worker, appVars, log, applied, watched>>,
           Told(client.listeners, Tellable(Known, Known, refused)), Tracks(client, client')
    PROVE  CacheInv' /\ KnownInv' /\ FreshInv'
<1> DEFINE L == client.listeners
           B == Known
           r == refused
<1>1. /\ client'.cache = client.cache /\ client'.queue = client.queue
      /\ client'.listeners = client.listeners
      /\ client'.view = Nil <=> client.view = Nil
      /\ client.view # Nil => /\ client'.view.has = client.view.has
                              /\ client'.view.since = client.view.since
                              /\ client'.view.current => client.view.current
  BY DEF Tracks, Keeps, SameStore
<1>2. UNCHANGED <<log, applied, refused>> /\ UNCHANGED Reports /\ refused' = refused
  BY DEF appVars, Reports
<1>3. CacheInv' /\ Known' = B
  BY <1>1, <1>2, CacheSame DEF ReadsInv
<1>4. L \in SUBSET Gets /\ main \in Seq(Events) /\ Tellable(Known, B, r) \in SUBSET Snapshots
  BY DEF IInv, TypeOK, Clients, Tellable
<1>5. \A e \in Elements(main') :
          e \in Elements(main) \/ e \in Batches(L, Tellable(Known, B, r) \cup {Nil})
  BY <1>4, ToldEvents
<1>6. client'.listeners \subseteq L /\ \A g \in L : must[g] \subseteq Known
  BY <1>1 DEF ReadsInv, KnownInv
<1>7. ViewShows(client', B, r)
  BY <1>1 DEF ReadsInv, KnownInv, ViewShows, LocalView
<1>8. client'.snapshot \in Tellable(Known, B, r) \cup {Nil}
  BY DEF Told
<1>9. client'.view # Nil /\ client'.view.current =>
          client'.view.since <= 1 \/ client'.view.since <= client'.cache.version
  BY <1>1 DEF ReadsInv, FreshInv
<1>10. /\ InStep(client)' /\ UNCHANGED <<Reports, log, watched>> /\ UNCHANGED worker
       /\ B = Known' /\ Known \subseteq B /\ r = refused' /\ refused \subseteq r
  BY <1>2, <1>3 DEF IInv
<1> HIDE DEF L, B, r
<1>11. KnownInv' /\ FreshInv'
  BY <1>4, <1>5, <1>6, <1>7, <1>8, <1>9, <1>10, KnownStep
<1> QED
  BY <1>3, <1>11

\* Nothing is on its way from the server.
LEMMA EmptyWire ==
    ASSUME DeliveryInv, UNCHANGED <<log, watched>>, SameTokens(client, client'),
           fromServer' = <<>>, client'.update = Nil, TokensOK(client')
    PROVE  DeliveryInv' /\ WatchInv'
<1>1. DOMAIN fromServer' = {}
  OBVIOUS
<1>2. DeliveryInv'
  BY <1>1 DEF DeliveryInv, SameTokens
<1>3. WatchInv'
  BY <1>1 DEF WatchInv
<1> QED
  BY <1>2, <1>3

\* The messages under way are not for the target, or no longer.
LEMMA NothingLive ==
    ASSUME DeliveryInv, UNCHANGED <<log, watched, fromServer>>, SameTokens(client, client'),
           client'.update = client.update, TokensOK(client'),
           ~ IsActiveTarget(client'), \A i \in DOMAIN fromServer : ~ Live(i)'
    PROVE  DeliveryInv' /\ WatchInv'
<1>1. \A doc : Delivered(doc)' <=> Delivered(doc)
  BY ContentSame DEF Delivered
<1>2. DeliveryInv'
  BY <1>1 DEF DeliveryInv, SameTokens, IsActiveTarget
<1>3. WatchInv'
  BY DEF WatchInv
<1> QED
  BY <1>2, <1>3

\* The messages under way mean what they meant before.
LEMMA SameWire ==
    ASSUME IInv, DeliveryInv, WatchInv, UNCHANGED <<log, watched, fromServer>>,
           SameTokens(client, client'), SameRemote(client, client'),
           client'.cache.version \in Nat, client.cache.version <= client'.cache.version,
           client.listening => /\ client'.view.since = client.view.since
                               /\ client'.view.synced = client.view.synced
    PROVE  DeliveryInv' /\ WatchInv'
<1>1. \A doc : Delivered(doc)' <=> Delivered(doc)
  BY ContentSame DEF Delivered
<1>2. DeliveryInv'
  BY <1>1 DEF DeliveryInv, SameTokens, SameRemote, IsActiveTarget
<1>3. \A v \in Nat : v <= client.cache.version => v <= client'.cache.version
  <2>1. client.cache.version \in Nat
    BY DEF IInv, TypeOK, Clients
  <2> QED
    BY <2>1
<1>4. TokensOK(client')
  <2>1. client.resume_token \in Nat
    BY DEF IInv, TypeOK, Clients
  <2> QED
    BY <1>3, <2>1 DEF WatchInv, TokensOK, SameTokens, SameRemote
<1>5. /\ \A i \in DOMAIN fromServer : Live(i)' <=> Live(i)
      /\ \A i \in DOMAIN fromServer : \A v : Precedes(i, v)' <=> Precedes(i, v)
  BY DEF Live, Precedes, DocumentAt, SameRemote, Replies
<1>6. \A i \in DOMAIN fromServer : fromServer[i].type = "snapshot" => fromServer[i].version \in Nat
  BY DEF DeliveryInv
<1>7. WatchInv'
  <2> SUFFICES ASSUME NEW i \in DOMAIN fromServer, fromServer[i].type = "snapshot", Live(i)
               PROVE  /\ client'.view.since <= fromServer[i].version
                      /\ fromServer[i].version >= 2 =>
                            \/ client'.view.synced /\ fromServer[i].version <= client'.cache.version
                            \/ Precedes(i, fromServer[i].version)
    BY <1>4, <1>5 DEF WatchInv
  <2>1. client.listening
    BY DEF Live
  <2> QED
    BY <1>3, <1>6, <2>1 DEF WatchInv
<1> QED
  BY <1>2, <1>7

-----------------------------------------------------------------------------
(* Timers and the stream.                                                   *)

LEMMA RequestTokens ==
    ASSUME NEW c \in Clients, NEW d, TokensOK(c), d.resume_token = c.resume_token,
           \/ d.requests = <<>> \/ d.requests = c.requests
           \/ d.requests = Append(c.requests, WatchRequest(c))
           \/ d.requests = Append(c.requests, [type |-> "unwatch"])
    PROVE  \A i \in DOMAIN d.requests : d.requests[i].type = "watch"
              => d.requests[i].resume_token <= d.resume_token
<1>1. c.requests \in Seq(Requests) /\ c.resume_token \in Nat
  BY DEF Clients
<1>2. \A i \in DOMAIN c.requests : c.requests[i].type = "watch"
          => c.requests[i].resume_token <= c.resume_token
  BY DEF TokensOK
<1>3. ASSUME NEW r, d.requests = Append(c.requests, r),
             r.type = "watch" => r.resume_token <= c.resume_token
      PROVE  \A i \in DOMAIN d.requests : d.requests[i].type = "watch"
                => d.requests[i].resume_token <= d.resume_token
  <2> TAKE i \in DOMAIN d.requests
  <2>1. \/ i \in DOMAIN c.requests /\ d.requests[i] = c.requests[i]
        \/ d.requests[i] = r
    BY <1>1, <1>3
  <2> QED
    BY <1>2, <1>3, <2>1
<1>4. /\ WatchRequest(c).type = "watch" => WatchRequest(c).resume_token <= c.resume_token
      /\ [type |-> "unwatch"].type # "watch"
  BY <1>1 DEF WatchRequest
<1>5. CASE d.requests = <<>>
  BY <1>5
<1>6. CASE d.requests = c.requests
  BY <1>2, <1>6
<1>7. CASE d.requests = Append(c.requests, WatchRequest(c))
  BY <1>3, <1>4, <1>7
<1>8. CASE d.requests = Append(c.requests, [type |-> "unwatch"])
  BY <1>3, <1>4, <1>8
<1> QED
  BY <1>5, <1>6, <1>7, <1>8

LEMMA TracksTokens ==
    ASSUME IInv, WatchInv, Tracks(client, client'), client'.listening = client.listening,
           \/ client'.requests = <<>> \/ client'.requests = client.requests
           \/ client'.requests = Append(client.requests, WatchRequest(client))
    PROVE  /\ SameTokens(client, client') /\ TokensOK(client')
           /\ client'.cache = client.cache
           /\ client.listening => /\ client'.view.since = client.view.since
                                  /\ client'.view.synced = client.view.synced
<1>1. SameTokens(client, client') /\ client'.cache = client.cache
  BY DEF Tracks, Keeps, SameStore, SameTokens
<1>2. client.listening => /\ client'.view.since = client.view.since
                          /\ client'.view.synced = client.view.synced
  BY DEF Tracks, Keeps, IInv, AssertionsHold
<1>3. client \in Clients /\ TokensOK(client) /\ client'.resume_token = client.resume_token
  BY <1>1 DEF IInv, TypeOK, WatchInv, SameTokens
<1>4. \A i \in DOMAIN client'.requests : client'.requests[i].type = "watch"
          => client'.requests[i].resume_token <= client'.resume_token
  BY <1>3, RequestTokens
<1>5. TokensOK(client')
  BY <1>1, <1>2, <1>3, <1>4 DEF TokensOK, SameTokens
<1> QED
  BY <1>1, <1>2, <1>5

LEMMA CutReads ==
    ASSUME IInv, ReadsInv, IInv', UNCHANGED <<worker, appVars, log, applied, watched>>,
           Told(client.listeners, Tellable(Known, Known, refused)), Tracks(client, client'), Cut(client'),
           client'.listening = client.listening, fromServer' = <<>>
    PROVE  ReadsInv'
<1>1. CacheInv' /\ KnownInv' /\ FreshInv'
  BY TracksKnown
<1>2. SameTokens(client, client') /\ TokensOK(client') /\ client'.update = Nil
  BY TracksTokens DEF Cut, ReadsInv
<1>3. DeliveryInv' /\ WatchInv'
  BY <1>2, EmptyWire DEF ReadsInv
<1> QED
  BY <1>1, <1>3 DEF ReadsInv

LEMMA SoundReads ==
    ASSUME IInv, ReadsInv
    PROVE  Sound(client, client.listeners, Tellable(Known, Known, refused)) /\ TrackerOK(client)
<1>1. client.listeners \in SUBSET Gets
  BY DEF IInv, TypeOK, Clients
<1> QED
  BY <1>1, TellableSound

LEMMA BrokenReads == IInv /\ ReadsInv /\ IInv' /\ (StreamRefused \/ StreamBreak) => ReadsInv'
<1> SUFFICES ASSUME IInv, ReadsInv, IInv', StreamRefused \/ StreamBreak PROVE ReadsInv'
  OBVIOUS
<1>1. Sound(client, client.listeners, Tellable(Known, Known, refused)) /\ TrackerOK(client)
  BY SoundReads
<1>2. OnWatchStreamBroken /\ UNCHANGED <<worker, appVars, log, applied, watched>>
  BY DEF StreamRefused, StreamBreak, serverVars
<1>3. fromServer' = <<>>
  BY DEF StreamRefused, StreamBreak, serverVars, Hangup, IInv, WireInv, IsOpen
<1>4. /\ Told(client.listeners, Tellable(Known, Known, refused))
      /\ Tracks(client, client') /\ Cut(client')
      /\ client'.listening = client.listening
  BY <1>1, <1>2, BrokenEffect
<1> QED
  BY <1>2, <1>3, <1>4, CutReads

LEMMA StoppedReads == IInv /\ ReadsInv /\ IInv' /\ (IdleTimer \/ ConnectivityChange) => ReadsInv'
<1> SUFFICES ASSUME IInv, ReadsInv, IInv', IdleTimer \/ ConnectivityChange PROVE ReadsInv'
  OBVIOUS
<1>1. Sound(client, client.listeners, Tellable(Known, Known, refused)) /\ TrackerOK(client)
  BY SoundReads
<1>2. /\ Becomes(OnWatchStreamStopped(client)) \/ RestartNetwork
      /\ UNCHANGED <<worker, appVars, log, applied, watched>>
      /\ fromServer' = <<>>
  BY DEF IdleTimer, ConnectivityChange, Hangup
<1>3. client.stream.idle => IsOpen(client.stream)
  BY DEF IInv, WireInv
<1>4. /\ Told(client.listeners, Tellable(Known, Known, refused))
      /\ Tracks(client, client') /\ Cut(client')
      /\ client'.listening = client.listening
  BY <1>1, <1>2, <1>3, StoppedEffect
<1> QED
  BY <1>2, <1>4, CutReads

LEMMA OnlineStateTimerReads == IInv /\ ReadsInv /\ IInv' /\ OnlineStateTimer => ReadsInv'
<1> SUFFICES ASSUME IInv, ReadsInv, IInv', OnlineStateTimer PROVE ReadsInv'
  OBVIOUS
<1>1. Sound(client, client.listeners, Tellable(Known, Known, refused)) /\ TrackerOK(client)
  BY SoundReads
<1>2. UNCHANGED <<worker, appVars, log, applied, watched>> /\ UNCHANGED <<log, watched, fromServer>>
  BY DEF OnlineStateTimer, serverVars
<1>3. /\ Told(client.listeners, Tellable(Known, Known, refused))
      /\ Tracks(client, client') /\ SameRemote(client, client')
  BY <1>1, TimerEffect
<1>4. CacheInv' /\ KnownInv' /\ FreshInv'
  BY <1>2, <1>3, TracksKnown
<1>5. client'.listening = client.listening /\ client'.requests = client.requests
  BY <1>3 DEF SameRemote
<1>6. /\ SameTokens(client, client') /\ client'.cache = client.cache
      /\ client.listening => /\ client'.view.since = client.view.since
                             /\ client'.view.synced = client.view.synced
  BY <1>3, <1>5, TracksTokens DEF ReadsInv
<1>7. client'.cache.version \in Nat /\ client.cache.version <= client'.cache.version
  <2>1. client.cache.version \in Nat
    BY DEF IInv, TypeOK, Clients
  <2> QED
    BY <1>6, <2>1
<1>8. DeliveryInv' /\ WatchInv'
  BY <1>2, <1>3, <1>6, <1>7, SameWire DEF ReadsInv
<1> QED
  BY <1>4, <1>8 DEF ReadsInv

LEMMA StreamOpenReads == IInv /\ ReadsInv /\ IInv' /\ StreamOpen => ReadsInv'
<1> SUFFICES ASSUME IInv, ReadsInv, IInv', StreamOpen PROVE ReadsInv'
  OBVIOUS
<1>1. Sound(client, client.listeners, Tellable(Known, Known, refused)) /\ TrackerOK(client)
  BY SoundReads
<1>2. /\ UNCHANGED <<worker, appVars, log, applied, watched>> /\ UNCHANGED <<log, watched>>
      /\ fromServer' = fromServer /\ client.stream.state = "Starting"
  BY DEF StreamOpen, serverVars
<1>3. /\ Told(client.listeners, Tellable(Known, Known, refused))
      /\ Tracks(client, client')
      /\ client'.listening = client.listening /\ client'.update = client.update
      /\ ~ client.listening => client'.requests = client.requests
      /\ client.listening => client'.requests = Append(client.requests, WatchRequest(client))
  BY <1>1, OpenEffect
<1>4. fromServer' = <<>> /\ client'.update = Nil
  BY <1>2, <1>3 DEF IInv, WireInv, IsOpen
<1>5. CacheInv' /\ KnownInv' /\ FreshInv'
  BY <1>2, <1>3, TracksKnown
<1>6. SameTokens(client, client') /\ TokensOK(client')
  BY <1>3, TracksTokens DEF ReadsInv
<1>7. DeliveryInv' /\ WatchInv'
  BY <1>2, <1>4, <1>6, EmptyWire DEF ReadsInv
<1> QED
  BY <1>5, <1>7 DEF ReadsInv

LEMMA KnownSame ==
    ASSUME ReadsInv, UNCHANGED <<worker, main, must, mine, seen, refused, log, applied>>,
           SameStore(client, client'),
           client'.view = client.view, client'.listeners = client.listeners,
           client'.snapshot = client.snapshot
    PROVE  CacheInv' /\ KnownInv' /\ FreshInv'
<1>1. client'.cache = client.cache /\ client'.queue = client.queue
  BY DEF SameStore
<1>2. CacheInv' /\ Known' = Known
  BY <1>1, CacheSame DEF ReadsInv
<1>3. KnownInv'
  <2>1. ViewShows(client, Known, refused)' <=> ViewShows(client, Known, refused)
    BY <1>1, <1>2 DEF ViewShows, Shows, LocalView, Elements
  <2> QED
    BY <1>2, <2>1 DEF ReadsInv, KnownInv, Shows, Elements
<1>4. FreshInv'
  BY <1>1, ContentSame DEF ReadsInv, FreshInv, Fresh, Elements
<1> QED
  BY <1>2, <1>3, <1>4

LEMMA BackoffTimerReads == IInv /\ ReadsInv /\ BackoffTimer => ReadsInv'
<1> SUFFICES ASSUME IInv, ReadsInv, BackoffTimer PROVE ReadsInv'
  OBVIOUS
<1> DEFINE s == BackoffElapsed(client.stream)
<1>1. /\ client.stream.state = "Backoff" /\ client' = [client EXCEPT !.stream = s]
      /\ UNCHANGED <<worker, main, must, mine, seen, refused, log, applied>>
      /\ UNCHANGED <<log, watched>> /\ UNCHANGED fromServer
  BY DEF BackoffTimer, serverVars, appVars
<1>2. client \in Clients /\ fromServer = <<>> /\ client.update = Nil
  BY <1>1 DEF IInv, TypeOK, WireInv, IsOpen
<1> HIDE DEF s
<1>3. /\ SameStore(client, client') /\ client'.view = client.view
      /\ client'.listeners = client.listeners /\ client'.snapshot = client.snapshot
      /\ client'.requests = client.requests /\ client'.listening = client.listening
      /\ client'.update = client.update /\ SameTokens(client, client')
  BY <1>1, <1>2 DEF Clients, SameStore, SameTokens
<1>4. CacheInv' /\ KnownInv' /\ FreshInv'
  BY <1>1, <1>3, KnownSame
<1>5. TokensOK(client')
  BY <1>3 DEF ReadsInv, WatchInv, TokensOK, SameStore
<1>6. DeliveryInv' /\ WatchInv'
  BY <1>1, <1>2, <1>3, <1>5, EmptyWire DEF ReadsInv
<1> QED
  BY <1>4, <1>6 DEF ReadsInv

-----------------------------------------------------------------------------
(* The app.                                                                 *)

\* The client and the server do nothing.
LEMMA AppFrame ==
    ASSUME ReadsInv, UNCHANGED <<client, serverVars>>, UNCHANGED refused
    PROVE  CacheInv' /\ DeliveryInv' /\ WatchInv' /\ Known' = Known
<1>1. UNCHANGED <<client, log, applied, watched, fromServer>>
  BY DEF serverVars
<1>2. \A doc : Delivered(doc)' <=> Delivered(doc)
  BY <1>1, ContentSame DEF Delivered
<1>3. CacheInv' /\ Known' = Known
  BY <1>1, CacheSame DEF ReadsInv
<1>4. DeliveryInv'
  BY <1>1, <1>2 DEF ReadsInv, DeliveryInv
<1>5. WatchInv'
  BY <1>1 DEF ReadsInv, WatchInv, Live, Precedes, DocumentAt, Replies
<1> QED
  BY <1>3, <1>4, <1>5

LEMMA WaitingAdded ==
    ASSUME IInv, KnownInv, NEW task \in Tasks, worker' = Append(worker, task)
    PROVE  /\ Elements(worker') = Elements(worker) \cup {task}
           /\ \A i \in DOMAIN worker : i \in 1..(Len(worker) + 1 - 1) /\ worker'[i] = worker[i]
           /\ \A i \in DOMAIN worker' :
                 \/ i = Len(worker) + 1 /\ worker'[i] = task
                 \/ /\ i \in DOMAIN worker /\ worker'[i] = worker[i]
                    /\ worker[i].type = "add" => \A w \in must[worker[i].get] :
                          w \in Known \/ \E j \in 1..(i - 1) : worker'[j] = [type |-> "write", write |-> w]
<1>1. worker \in Seq(Tasks) /\ Len(worker) \in Nat
  BY DEF IInv, TypeOK
<1>2. /\ DOMAIN worker = 1..Len(worker) /\ DOMAIN worker' = 1..(Len(worker) + 1)
      /\ worker'[Len(worker) + 1] = task
      /\ \A i \in DOMAIN worker : worker'[i] = worker[i]
  BY <1>1
<1>3. \A i \in DOMAIN worker : i \in 1..(Len(worker) + 1 - 1) /\ \A j \in 1..(i - 1) : j \in DOMAIN worker
  BY <1>1, <1>2
<1>4. \A i \in DOMAIN worker' : i \in DOMAIN worker \/ i = Len(worker) + 1
  BY <1>1, <1>2
<1>5. Elements(worker') = Elements(worker) \cup {task}
  BY <1>1, ElementsOfAppend
<1>6. ASSUME NEW i \in DOMAIN worker, worker[i].type = "add", NEW w \in must[worker[i].get], w \notin Known
      PROVE  \E j \in 1..(i - 1) : worker'[j] = [type |-> "write", write |-> w]
  <2>1. PICK j \in 1..(i - 1) : worker[j] = [type |-> "write", write |-> w]
    BY <1>6 DEF KnownInv
  <2> QED
    BY <1>2, <1>3, <2>1
<1> QED
  BY <1>2, <1>3, <1>4, <1>5, <1>6

LEMMA GetDocumentReads == IInv /\ ReadsInv /\ GetDocument => ReadsInv'
<1> SUFFICES ASSUME IInv, ReadsInv, GetDocument PROVE ReadsInv'
  OBVIOUS
<1> DEFINE g == asked + 1
           task == [type |-> "add", get |-> g]
<1>1. /\ asked < MaxGets /\ must' = [must EXCEPT ![g] = mine \cup seen]
      /\ worker' = Append(worker, task)
      /\ UNCHANGED <<client, serverVars>> /\ UNCHANGED <<main, answer, mine, seen, refused, log>>
      /\ UNCHANGED refused
  BY DEF GetDocument, serverVars
<1>2. TypeOK /\ GetsInv /\ KnownInv
  BY DEF IInv, ReadsInv
<1>3. asked \in Nat /\ g \in Gets /\ g \notin 1..asked
  BY <1>1, <1>2, BoundsAssumption, SMTT(30) DEF TypeOK, Gets
<1>4. g \notin Adds /\ g \notin client.listeners /\ \A e \in Elements(main) : g \notin e.gets
  BY <1>2, <1>3 DEF TypeOK, GetsInv
<1>5. task \in Tasks /\ task.type = "add" /\ task.get = g
  BY <1>3 DEF Tasks
<1>6. \A i \in DOMAIN worker : worker[i].type = "add" => worker[i].get # g /\ worker[i].get \in Gets
  <2>1. ASSUME NEW i \in DOMAIN worker, worker[i].type = "add"
        PROVE  worker[i].get \in Gets /\ worker[i] = [type |-> "add", get |-> worker[i].get]
    <3>1. worker[i] \in Tasks
      BY <1>2 DEF TypeOK
    <3> QED
      BY <2>1, <3>1 DEF Tasks
  <2>2. ASSUME NEW i \in DOMAIN worker, worker[i].type = "add", worker[i].get = g PROVE g \in Adds
    BY <1>3, <2>1, <2>2 DEF Adds, Elements
  <2> QED
    BY <1>4, <2>1, <2>2
<1> HIDE DEF task, g
<1>7. /\ Elements(worker') = Elements(worker) \cup {task}
      /\ \A i \in DOMAIN worker : i \in 1..(Len(worker) + 1 - 1) /\ worker'[i] = worker[i]
      /\ \A i \in DOMAIN worker' :
            \/ i = Len(worker) + 1 /\ worker'[i] = task
            \/ /\ i \in DOMAIN worker /\ worker'[i] = worker[i]
               /\ worker[i].type = "add" => \A w \in must[worker[i].get] :
                     w \in Known \/ \E j \in 1..(i - 1) : worker'[j] = [type |-> "write", write |-> w]
  BY <1>1, <1>2, <1>5, WaitingAdded
<1>8. must'[g] = mine \cup seen /\ \A h \in Gets : h # g => must'[h] = must[h]
  BY <1>1, <1>2, <1>3 DEF TypeOK
<1>9. CacheInv' /\ DeliveryInv' /\ WatchInv' /\ Known' = Known
  BY <1>1, AppFrame
<1>10. ASSUME NEW i \in DOMAIN worker', worker'[i].type = "add",
              NEW w \in must'[worker'[i].get], w \notin Known
       PROVE  \E j \in 1..(i - 1) : worker'[j] = [type |-> "write", write |-> w]
  <2>1. CASE i = Len(worker) + 1 /\ worker'[i] = task
    <3>1. w \in mine \cup seen
      BY <1>5, <1>8, <1>10, <2>1
    <3>2. w \in mine
      BY <1>2, <1>10, <3>1 DEF KnownInv
    <3>3. PICK j \in DOMAIN worker : worker[j] = [type |-> "write", write |-> w]
      BY <1>2, <1>10, <3>2 DEF KnownInv, Elements
    <3> QED
      BY <1>7, <2>1, <3>3
  <2>2. CASE i \in DOMAIN worker /\ worker'[i] = worker[i]
    <3>1. w \in must[worker[i].get] /\ i # Len(worker) + 1
      BY <1>2, <1>6, <1>8, <1>10, <2>2 DEF TypeOK
    <3> QED
      BY <1>7, <1>10, <2>2, <3>1
  <2> QED
    BY <1>7, <2>1, <2>2
<1>11. \A e \in Elements(main) : e.gets \subseteq Gets
  <2>1. \A e \in Elements(main) : e \in Events
    BY <1>2 DEF TypeOK, Elements
  <2> QED
    BY <2>1 DEF Events
<1>12. client.listeners \subseteq Gets
  BY <1>2 DEF TypeOK, Clients
<1>13. KnownInv'
  <2>1. client' = client /\ main' = main /\ mine' = mine /\ seen' = seen
    BY <1>1
  <2>2. \A w \in mine : w \in Known \/ [type |-> "write", write |-> w] \in Elements(worker')
    BY <1>2, <1>7 DEF KnownInv
  <2>3. \A h \in client.listeners : must'[h] \subseteq Known
    BY <1>2, <1>4, <1>8, <1>12 DEF KnownInv
  <2>4. \A e \in Elements(main) : e.snapshot # Nil =>
            /\ e.snapshot.has \subseteq Known
            /\ \A h \in e.gets : Shows(e.snapshot.has, must'[h], refused)
    BY <1>2, <1>4, <1>8, <1>11 DEF KnownInv
  <2>5. Elements(main)' = Elements(main)
    BY <2>1
  <2>6. ViewShows(client, Known, refused)' <=> ViewShows(client, Known, refused)
    BY <1>1, <1>9, <2>1 DEF ViewShows, Shows, LocalView, Elements
  <2>7. \A has, h : Shows(has, must[h], refused)' <=> Shows(has, must'[h], refused)
    BY <1>1 DEF Shows
  <2> QED
    BY <1>2, <1>9, <1>10, <2>1, <2>2, <2>3, <2>4, <2>5, <2>6, <2>7 DEF KnownInv
<1>14. FreshInv'
  BY <1>1, ContentSame DEF ReadsInv, FreshInv, Fresh, Elements
<1> QED
  BY <1>9, <1>13, <1>14 DEF ReadsInv

LEMMA WriteMutationsReads == IInv /\ ReadsInv /\ WriteMutations => ReadsInv'
<1> SUFFICES ASSUME IInv, ReadsInv, WriteMutations PROVE ReadsInv'
  OBVIOUS
<1> DEFINE v == wrote + 1
           task == [type |-> "write", write |-> v]
<1>1. /\ wrote < MaxWrites /\ mine' = mine \cup {v}
      /\ worker' = Append(worker, task)
      /\ UNCHANGED <<client, serverVars>> /\ UNCHANGED <<main, answer, must, seen, log>>
      /\ UNCHANGED refused
  BY DEF WriteMutations, serverVars
<1>2. TypeOK /\ KnownInv
  BY DEF IInv, ReadsInv
<1>3. v \in OwnWrites
  BY <1>1, <1>2, BoundsAssumption DEF TypeOK, OwnWrites
<1>4. task \in Tasks /\ task.type # "add" /\ task = [type |-> "write", write |-> v]
  BY <1>3 DEF Tasks
<1> HIDE DEF task, v
<1>5. /\ Elements(worker') = Elements(worker) \cup {task}
      /\ \A i \in DOMAIN worker' :
            \/ i = Len(worker) + 1 /\ worker'[i] = task
            \/ /\ i \in DOMAIN worker /\ worker'[i] = worker[i]
               /\ worker[i].type = "add" => \A w \in must[worker[i].get] :
                     w \in Known \/ \E j \in 1..(i - 1) : worker'[j] = [type |-> "write", write |-> w]
  BY <1>1, <1>2, <1>4, WaitingAdded
<1>6. CacheInv' /\ DeliveryInv' /\ WatchInv' /\ Known' = Known
  BY <1>1, AppFrame
<1>7. KnownInv'
  <2>1. client' = client /\ main' = main /\ must' = must /\ seen' = seen
    BY <1>1
  <2>2. \A w \in mine' : w \in Known \/ [type |-> "write", write |-> w] \in Elements(worker')
    BY <1>1, <1>2, <1>4, <1>5 DEF KnownInv
  <2>3. Elements(main)' = Elements(main)
    BY <2>1
  <2>4. \A i \in DOMAIN worker' : worker'[i].type = "add" => \A w \in must[worker'[i].get] :
            w \in Known \/ \E j \in 1..(i - 1) : worker'[j] = [type |-> "write", write |-> w]
    BY <1>4, <1>5
  <2>5. ViewShows(client, Known, refused)' <=> ViewShows(client, Known, refused)
    BY <1>1, <1>6, <2>1 DEF ViewShows, Shows, LocalView, Elements
  <2>6. \A has, h : Shows(has, must[h], refused)' <=> Shows(has, must[h], refused)
    BY <1>1 DEF Shows
  <2> QED
    BY <1>2, <1>6, <2>1, <2>2, <2>3, <2>4, <2>5, <2>6 DEF KnownInv
<1>8. FreshInv'
  BY <1>1, ContentSame DEF ReadsInv, FreshInv, Fresh, Elements
<1> QED
  BY <1>6, <1>7, <1>8 DEF ReadsInv

LEMMA OnEventReads == IInv /\ ReadsInv /\ OnEvent => ReadsInv'
<1> SUFFICES ASSUME IInv, ReadsInv, OnEvent PROVE ReadsInv'
  OBVIOUS
<1> DEFINE snapshot == Head(main).snapshot
<1>1. PICK g \in Head(main).gets :
         /\ TakeEvent(g)
         /\ \/ g \in muted /\ UNCHANGED <<answer, must, seen, muted, worker>>
            \/ /\ must' = [must EXCEPT ![g] = {}]
               /\ seen' = IF Answer(g, snapshot).ok THEN seen \cup snapshot.has ELSE seen
               /\ worker' = IF snapshot = Nil THEN worker
                            ELSE Append(worker, [type |-> "remove", get |-> g])
  BY DEF OnEvent
<1>2. /\ main # <<>> /\ UNCHANGED <<client, serverVars>> /\ UNCHANGED <<client, mine>>
      /\ UNCHANGED log /\ UNCHANGED refused
  BY DEF OnEvent, serverVars
<1>3. TypeOK /\ KnownInv
  BY DEF IInv, ReadsInv
<1>4. /\ Head(main) \in Events /\ Head(main) \in Elements(main)
      /\ \E m \in {0, 1} : \A i \in DOMAIN main' : i \in Nat /\ Origin(i, i + m, g)
  <2>1. main \in Seq(Events)
    BY <1>3 DEF TypeOK
  <2> QED
    BY <1>1, <1>2, <2>1, EventTaken, ElementsOfTail
<1>5. \A e \in Elements(main') : \E f \in Elements(main) :
         e.gets \subseteq f.gets /\ e.snapshot = f.snapshot
  BY <1>4 DEF Elements, Origin
<1>6. g \in Gets /\ snapshot \in Snapshots \cup {Nil}
  BY <1>1, <1>4 DEF Events
<1>7. \A h \in Gets : must'[h] \subseteq must[h]
  BY <1>1, <1>3, <1>6 DEF TypeOK
<1>8. Answer(g, snapshot).ok => snapshot # Nil
  BY DEF Answer, IsOk
<1>9. seen' \subseteq Known
  BY <1>1, <1>3, <1>4, <1>8 DEF KnownInv
<1> DEFINE task == [type |-> "remove", get |-> g]
<1>10. task \in Tasks /\ task.type # "add"
  BY <1>6 DEF Tasks
<1>11. worker' = worker \/ worker' = Append(worker, task)
  BY <1>1
<1> HIDE DEF snapshot, task
<1>12. CacheInv' /\ DeliveryInv' /\ WatchInv' /\ Known' = Known
  BY <1>2, AppFrame
<1>13. \A i \in DOMAIN worker : worker[i].type = "add" => worker[i].get \in Gets
  <2>1. \A i \in DOMAIN worker : worker[i] \in Tasks
    BY <1>3 DEF TypeOK
  <2> QED
    BY <2>1 DEF Tasks
<1>14. /\ Elements(worker) \subseteq Elements(worker')
       /\ \A i \in DOMAIN worker' : worker'[i].type = "add" => \A w \in must'[worker'[i].get] :
             w \in Known \/ \E j \in 1..(i - 1) : worker'[j] = [type |-> "write", write |-> w]
  <2>1. CASE worker' = worker
    BY <1>3, <1>7, <1>13, <2>1 DEF KnownInv
  <2>2. CASE worker' = Append(worker, task)
    <3>1. /\ Elements(worker') = Elements(worker) \cup {task}
          /\ \A i \in DOMAIN worker' :
                \/ i = Len(worker) + 1 /\ worker'[i] = task
                \/ /\ i \in DOMAIN worker /\ worker'[i] = worker[i]
                   /\ worker[i].type = "add" => \A w \in must[worker[i].get] :
                         w \in Known \/ \E j \in 1..(i - 1) : worker'[j] = [type |-> "write", write |-> w]
      BY <1>3, <1>10, <2>2, WaitingAdded
    <3> QED
      BY <1>7, <1>10, <1>13, <3>1
  <2> QED
    BY <1>11, <2>1, <2>2
<1>15. KnownInv'
  <2>1. client.listeners \subseteq Gets
    BY <1>3 DEF TypeOK, Clients
  <2>2. \A f \in Elements(main) : f.gets \subseteq Gets
    <3>1. \A f \in Elements(main) : f \in Events
      BY <1>3 DEF TypeOK, Elements
    <3> QED
      BY <3>1 DEF Events
  <2>3. \A e \in Elements(main') : e.snapshot # Nil =>
            /\ e.snapshot.has \subseteq Known
            /\ \A h \in e.gets : Shows(e.snapshot.has, must'[h], refused)
    <3>1. ASSUME NEW e \in Elements(main'), e.snapshot # Nil
          PROVE  /\ e.snapshot.has \subseteq Known
                 /\ \A h \in e.gets : Shows(e.snapshot.has, must'[h], refused)
      <4>1. PICK f \in Elements(main) : e.gets \subseteq f.gets /\ e.snapshot = f.snapshot
        BY <1>5
      <4>2. /\ f.snapshot.has \subseteq Known
            /\ \A h \in f.gets : Shows(f.snapshot.has, must[h], refused)
        BY <1>3, <3>1, <4>1 DEF KnownInv
      <4>3. \A h \in e.gets : must'[h] \subseteq must[h]
        BY <1>7, <2>2, <4>1
      <4>4. \A h \in e.gets : Shows(f.snapshot.has, must'[h], refused)
        BY <4>1, <4>2, <4>3, ShowsLess
      <4> QED
        BY <4>1, <4>2, <4>4
    <3> QED
      BY <3>1
  <2>4. \A w \in mine : w \in Known \/ [type |-> "write", write |-> w] \in Elements(worker')
    BY <1>3, <1>14 DEF KnownInv
  <2>5. \A h \in client.listeners : must'[h] \subseteq Known
    BY <1>3, <1>7, <2>1 DEF KnownInv
  <2>6. client' = client /\ mine' = mine
    BY <1>2
  <2>7. Elements(worker)' = Elements(worker') /\ Elements(main)' = Elements(main')
    OBVIOUS
  <2>8. ViewShows(client, Known, refused)' <=> ViewShows(client, Known, refused)
    BY <1>2, <1>12 DEF ViewShows, Shows, LocalView, Elements
  <2>9. \A has, h : Shows(has, must[h], refused)' <=> Shows(has, must'[h], refused)
    BY <1>2 DEF Shows
  <2> QED
    BY <1>3, <1>9, <1>12, <1>14, <2>3, <2>4, <2>5, <2>6, <2>7, <2>8, <2>9 DEF KnownInv
<1>16. FreshInv'
  <2>1. FreshInv /\ (\A s : Fresh(s)' <=> Fresh(s)) /\ client' = client
    BY <1>2, ContentSame DEF ReadsInv, Fresh
  <2>2. \A e \in Elements(main') : e.snapshot # Nil => Fresh(e.snapshot)
    BY <1>5, <2>1 DEF FreshInv
  <2> QED
    BY <2>1, <2>2 DEF FreshInv, Elements
<1> QED
  BY <1>12, <1>15, <1>16 DEF ReadsInv

\* The answers are true.
LEMMA Answered ==
    ASSUME IInv, ReadsInv, SessionReads, FreshAnswer, OnEvent \/ UNCHANGED answer
    PROVE  SessionReads' /\ FreshAnswer'
<1>1. CASE UNCHANGED answer
  BY <1>1 DEF SessionReads, FreshAnswer, Elements
<1>2. CASE OnEvent
  <2> DEFINE snapshot == Head(main).snapshot
  <2>1. PICK g \in Head(main).gets :
           answer' = answer \/ answer' = [answer EXCEPT ![g] = Append(@, Answer(g, snapshot))]
    BY <1>2 DEF OnEvent
  <2>2. TypeOK /\ KnownInv /\ FreshInv /\ SinceInv
    BY DEF IInv, ReadsInv
  <2>3. Head(main) \in Events /\ Head(main) \in Elements(main)
    BY <1>2, <2>2, ElementsOfTail DEF OnEvent, TypeOK
  <2>4. g \in Gets /\ snapshot \in Snapshots \cup {Nil}
    BY <2>1, <2>3 DEF Events
  <2> DEFINE a == Answer(g, snapshot)
  <2>5. a \in Answers
    BY <2>2, <2>3, <2>4, AnswerType DEF SinceInv
  <2>6. a.lost = {} /\ a.stale = {}
    <3>1. CASE ~ IsOk(snapshot)
      BY <3>1 DEF Answer
    <3>2. CASE IsOk(snapshot)
      <4>1. snapshot # Nil /\ Shows(snapshot.has, must[g], refused) /\ Fresh(snapshot)
        BY <2>1, <2>2, <2>3, <3>2 DEF IsOk, KnownInv, FreshInv
      <4> QED
        BY <3>2, <4>1 DEF Answer, Fresh, Found, Shows
    <3> QED
      BY <3>1, <3>2
  <2> HIDE DEF snapshot, a
  <2>7. ASSUME NEW h \in Gets, NEW b \in Elements(answer'[h])
        PROVE  b \in Elements(answer[h]) \/ b = a
    <3>1. CASE answer' = answer
      BY <3>1, <2>7
    <3>2. CASE answer' = [answer EXCEPT ![g] = Append(@, a)]
      <4>1. answer \in [Gets -> Seq(Answers)] /\ answer[g] \in Seq(Answers)
        BY <2>2, <2>4 DEF TypeOK
      <4>2. answer'[h] = IF h = g THEN Append(answer[g], a) ELSE answer[h]
        BY <2>4, <3>2, <4>1
      <4>3. Elements(Append(answer[g], a)) = Elements(answer[g]) \cup {a}
        BY <2>5, <4>1, ElementsOfAppend
      <4> QED
        BY <2>7, <4>2, <4>3
    <3> QED
      BY <2>1, <3>1, <3>2 DEF a
  <2>8. \A h : Elements(answer[h])' = Elements(answer'[h])
    BY DEF Elements
  <2> QED
    BY <2>6, <2>7, <2>8 DEF SessionReads, FreshAnswer
<1> QED
  BY <1>1, <1>2

\* A kill loses the queued tasks; what was shown is in the store.
LEMMA RestartReads == IInv /\ ReadsInv /\ Restart => ReadsInv'
<1> SUFFICES ASSUME IInv, ReadsInv, Restart PROVE ReadsInv'
  OBVIOUS
<1>1. /\ client' = [NewClient EXCEPT !.queue = client.queue, !.cache = client.cache,
                                     !.remote_keys = client.remote_keys,
                                     !.resume_token = client.resume_token,
                                     !.last_remote_snapshot = client.last_remote_snapshot]
      /\ mine' = mine \ {w \in OwnWrites : [type |-> "write", write |-> w] \in Elements(worker)}
      /\ worker' = <<>> /\ main' = <<>>
      /\ applied' = <<>> /\ fromServer' = <<>>
      /\ UNCHANGED <<seen, refused, log, watched>>
  BY DEF Restart, Hangup
<1>2. /\ client'.listening = FALSE /\ client'.view = Nil /\ client'.listeners = {}
      /\ client'.snapshot = Nil /\ client'.requests = <<>> /\ client'.update = Nil
      /\ SameStore(client, client') /\ SameTokens(client, client')
  BY <1>1 DEF NewClient, SameStore, SameTokens
<1>3. Known' = Known /\ client'.cache = client.cache /\ client'.queue = client.queue
  <2>1. client'.cache = client.cache /\ client'.queue = client.queue
    BY <1>2 DEF SameStore
  <2>2. Settled(client.cache)' = Settled(client.cache)
    BY <1>1, <2>1, SettledSame DEF Settled, ContentAt
  <2> QED
    BY <1>1, <2>1, <2>2 DEF Known, KnownTo, Elements
<1>4. DOMAIN applied' = {} /\ Elements(worker') = {} /\ Elements(main') = {} /\ DOMAIN worker' = {}
  BY <1>1 DEF Elements
<1>5. CacheInv'
  BY <1>1, <1>3, <1>4, ContentSame DEF ReadsInv, CacheInv, CacheOK
<1>6. KnownInv'
  <2>1. \A w \in mine' : w \in Known
    <3>1. mine \subseteq OwnWrites
      <4>1. mine \subseteq 1..wrote /\ wrote \in 0..MaxWrites /\ MaxWrites \in Nat
        BY BoundsAssumption DEF IInv, TypeOK
      <4> QED
        BY ONLY <4>1 DEF OwnWrites
    <3> QED
      BY <1>1, <3>1 DEF ReadsInv, KnownInv
  <2> QED
    BY <1>1, <1>2, <1>3, <1>4, <2>1 DEF ReadsInv, KnownInv, ViewShows
<1>7. FreshInv'
  BY <1>2, <1>4 DEF FreshInv
<1>8. TokensOK(client')
  BY <1>2, <1>3 DEF ReadsInv, WatchInv, TokensOK, SameTokens
<1>9. DeliveryInv' /\ WatchInv'
  BY <1>1, <1>2, <1>8, EmptyWire DEF ReadsInv
<1> QED
  BY <1>5, <1>6, <1>7, <1>9 DEF ReadsInv

LEMMA ReadsInitially == Init => ReadsInv /\ SessionReads /\ FreshAnswer
<1> SUFFICES ASSUME Init PROVE ReadsInv /\ SessionReads /\ FreshAnswer
  OBVIOUS
<1>1. /\ client = NewClient /\ worker = <<>> /\ main = <<>> /\ answer = [g \in Gets |-> <<>>]
      /\ mine = {} /\ seen = {}
      /\ log \in {<<NoDocument>>, <<NoDocument, Creation>>} /\ watched = Len(log)
      /\ applied = <<>> /\ fromServer = <<>>
  BY DEF Init
<1>2. /\ client.listening = FALSE /\ client.view = Nil /\ client.listeners = {}
      /\ client.snapshot = Nil /\ client.requests = <<>> /\ client.update = Nil
      /\ client.resume_token = 0 /\ client.last_remote_snapshot = 0
      /\ client.cache.version = 0 /\ client.cache.has = {} /\ client.cache.committed = FALSE
  BY <1>1 DEF NewClient
<1>3. DOMAIN applied = {} /\ Elements(main) = {} /\ DOMAIN worker = {} /\ DOMAIN fromServer = {}
      /\ DOMAIN client.requests = {} /\ Len(log) \in {1, 2}
  BY <1>1, <1>2 DEF Elements
<1>4. CacheInv
  BY <1>2, <1>3 DEF CacheInv, CacheOK, ContentAt
<1>5. DeliveryInv
  BY <1>1, <1>2, <1>3 DEF DeliveryInv
<1>6. WatchInv
  BY <1>2, <1>3 DEF WatchInv, TokensOK
<1>7. KnownInv /\ FreshInv
  BY <1>1, <1>2, <1>3 DEF KnownInv, FreshInv, ViewShows
<1>8. SessionReads /\ FreshAnswer
  BY <1>1 DEF SessionReads, FreshAnswer, Elements
<1> QED
  BY <1>4, <1>5, <1>6, <1>7, <1>8 DEF ReadsInv

LEMMA ReadsStutters == ReadsInv /\ UNCHANGED vars => ReadsInv'
<1> SUFFICES ASSUME ReadsInv, UNCHANGED vars PROVE ReadsInv'
  OBVIOUS
<1>1. /\ UNCHANGED <<client, serverVars>> /\ SameStore(client, client')
      /\ UNCHANGED <<worker, main, must, mine, seen, refused, log, applied>>
  BY DEF vars, appVars, serverVars, SameStore
<1>2. CacheInv' /\ KnownInv' /\ FreshInv'
  BY <1>1, KnownSame
<1>3. DeliveryInv' /\ WatchInv'
  BY <1>1, AppFrame DEF vars, appVars
<1> QED
  BY <1>2, <1>3 DEF ReadsInv

-----------------------------------------------------------------------------
(* The tasks of the worker queue.                                           *)

LEMMA RepliesDue ==
    ASSUME IInv
    PROVE  /\ Cardinality(Replies(fromServer)) \in Nat
           /\ client.target.outstanding_responses \in Nat
           /\ Cardinality(Replies(fromServer)) <= client.target.outstanding_responses
<1>1. /\ client.target.outstanding_responses \in Nat /\ Len(client.requests) \in Nat
      /\ fromServer \in Seq(Messages)
  <2>1. client \in Clients /\ fromServer \in Seq(Messages)
    BY DEF IInv, TypeOK
  <2> QED
    BY <2>1, RequestsOf
<1>2. Cardinality(Replies(fromServer)) \in Nat
  BY <1>1, RepliesFinite
<1>3. CASE refusing
  <2>1. \A i \in DOMAIN fromServer : fromServer[i].type = "refused"
    BY <1>3 DEF IInv, WireInv, Elements
  <2>2. Replies(fromServer) = {}
    BY <2>1 DEF Replies, IsReply
  <2>3. Cardinality(Replies(fromServer)) = 0
    BY <2>2, FS_EmptySet
  <2> QED
    BY <1>1, <1>2, <2>3
<1>4. CASE ~ refusing
  BY <1>1, <1>2, <1>4 DEF IInv, WireInv
<1> QED
  BY <1>1, <1>2, <1>3, <1>4

LEMMA ToldKnown ==
    ASSUME IInv, ReadsInv, IInv', UNCHANGED <<Reports, log, watched>>,
           NEW L \in SUBSET Gets, NEW B, B = Known', Known \subseteq B,
           NEW r, r = refused', refused \subseteq r,
           Told(L, Tellable(Known, B, r)),
           client'.listeners \subseteq L, \A g \in L : must[g] \subseteq Known,
           ViewShows(client', B, r),
           client'.view # Nil /\ client'.view.current =>
               client'.view.since <= 1 \/ client'.view.since <= client'.cache.version,
           \/ UNCHANGED worker
           \/ /\ worker # <<>> /\ worker' = Tail(worker)
              /\ Head(worker).type = "write" => Head(worker).write \in B
    PROVE  KnownInv' /\ FreshInv'
<1>1. main \in Seq(Events) /\ Tellable(Known, B, r) \in SUBSET Snapshots /\ InStep(client)'
  BY DEF IInv, TypeOK, Tellable
<1>2. \A e \in Elements(main') : e \in Elements(main) \/ e \in Batches(L, Tellable(Known, B, r) \cup {Nil})
  BY <1>1, ToldEvents
<1>3. client'.snapshot \in Tellable(Known, B, r) \cup {Nil}
  BY DEF Told
<1> QED
  BY <1>1, <1>2, <1>3, KnownStep

LEMMA AddQueryListenerReads == IInv /\ ReadsInv /\ IInv' /\ AddQueryListener => ReadsInv'
<1> SUFFICES ASSUME IInv, ReadsInv, IInv', AddQueryListener PROVE ReadsInv'
  OBVIOUS
<1> DEFINE g == Head(worker).get
           L == client.listeners \cup {g}
           B == Known
           r == refused
<1>1. /\ worker # <<>> /\ Head(worker).type = "add" /\ worker' = Tail(worker)
      /\ UNCHANGED <<Reports, log, watched>> /\ UNCHANGED <<log, watched, fromServer>>
      /\ UNCHANGED <<log, applied, refused>> /\ UNCHANGED <<log, watched>> /\ refused' = refused
  BY DEF AddQueryListener, Task, serverVars, appVars, Reports
<1>2. g \in Gets /\ client \in Clients /\ client.listeners \in SUBSET Gets
  BY <1>1, TaskTaken, StartsSound
<1>3. L \in SUBSET Gets /\ client.listeners \subseteq L /\ g \in L
  BY <1>2
<1>4. \A h \in L : must[h] \subseteq Known
  <2>1. 1 \in DOMAIN worker /\ worker[1] = Head(worker) /\ 1..(1 - 1) = {}
    BY <1>1 DEF IInv, TypeOK
  <2>2. KnownInv
    BY DEF ReadsInv
  <2>3. \A w \in must[worker[1].get] :
           w \in Known \/ \E j \in 1..(1 - 1) : worker[j] = [type |-> "write", write |-> w]
    BY <1>1, <2>1, <2>2 DEF KnownInv
  <2>4. must[g] \subseteq Known
    BY <2>1, <2>3
  <2> QED
    BY <2>2, <2>4 DEF KnownInv
<1>5. Sound(client, L, Tellable(Known, B, r)) /\ TrackerOK(client)
  BY <1>3, TellableSound
<1>6. Linked(client) /\ InStep(client) /\ watched \in Nat
  <2>1. Linked(client) /\ InStep(client)
    BY LinkedNow DEF IInv
  <2>2. log \in Seq(Writes \cup {NoDocument}) /\ watched \in DOMAIN log
    BY DEF IInv, TypeOK
  <2>3. watched \in Nat
    BY ONLY <2>2
  <2> QED
    BY <2>1, <2>3
<1>7. CASE client.listeners = {}
  <2>1. client.view = Nil /\ client.snapshot = Nil /\ ~ client.listening
    BY <1>6, <1>7 DEF Linked, InStep
  <2>2. PICK c : /\ c = RemoteListen(AddListener(client, g))
                 /\ Becomes(InitializeViewAndComputeSnapshot(c, watched))
    BY <1>7 DEF AddQueryListener
  <2>3. \A s \in Snapshots : s.has = LocalView(client).has /\ s.since = watched /\ s.from_cache
                             => s \in Tellable(Known, B, r)
    <3>1. /\ LocalView(client).has \subseteq KnownTo(client)
          /\ Shows(LocalView(client).has, KnownTo(client) \cup refused, refused)
      <4>1. refused \in SUBSET OwnWrites
        BY DEF IInv, TypeOK
      <4> QED
        BY <1>2, <4>1, ShowsLocal
    <3> QED
      BY <1>6, <3>1 DEF Tellable, Known, Fresh
  <2> HIDE DEF g, L, B, r
  <2>4. /\ Told(L, Tellable(Known, B, r))
        /\ SameStore(client, client') /\ client'.listening
        /\ client'.listeners = {g}
        /\ client'.view # Nil /\ client'.view.since = watched
        /\ client'.view.has = LocalView(client).has /\ ~ client'.view.current
        /\ client'.view.synced <=> client.remote_keys
        /\ Listens(client, client')
    BY <1>3, <1>5, <1>6, <1>7, <2>1, <2>2, <2>3, FirstListenerEffect
  <2>5. CacheInv' /\ Known' = B
    BY <1>1, <2>4, CacheSame DEF ReadsInv, SameStore, B
  <2>6. /\ B = Known' /\ Known \subseteq B /\ client'.listeners \subseteq L
        /\ r = refused' /\ refused \subseteq r
        /\ ViewShows(client', B, r)
    <3>1. LocalView(client').has = LocalView(client).has
      BY <2>4 DEF SameStore, LocalView
    <3>2. /\ LocalView(client).has \subseteq KnownTo(client)
          /\ Shows(LocalView(client).has, KnownTo(client) \cup refused, refused)
      <4>1. refused \in SUBSET OwnWrites
        BY DEF IInv, TypeOK
      <4> QED
        BY <1>2, <4>1, ShowsLocal
    <3>3. ViewShows(client', B, r)
      BY <2>4, <3>1, <3>2 DEF ViewShows, B, r, Known
    <3> QED
      BY <1>1, <1>3, <2>4, <2>5, <3>3 DEF B, r
  <2>7. KnownInv' /\ FreshInv'
    BY <1>1, <1>3, <1>4, <2>4, <2>6, ToldKnown
  <2>8. SameTokens(client, client') /\ client'.resume_token = client.resume_token
        /\ client'.cache = client.cache /\ TokensOK(client)
    BY <2>4 DEF SameStore, SameTokens, ReadsInv, WatchInv
  <2>9. \/ client'.requests = client.requests
        \/ client'.requests = Append(client.requests, WatchRequest(client))
    BY <2>4 DEF Listens
  <2>10. \A i \in DOMAIN client'.requests : client'.requests[i].type = "watch"
            => client'.requests[i].resume_token <= client'.resume_token
    BY <1>2, <2>8, <2>9, RequestTokens
  <2>11. TokensOK(client')
    BY <2>4, <2>8, <2>10 DEF TokensOK, SameTokens
  <2>12. DeliveryInv' /\ WatchInv'
    <3>1. CASE ~ IsOpen(client.stream)
      <4>1. fromServer' = <<>> /\ client'.update = Nil
        BY <1>1, <2>4, <3>1 DEF IInv, WireInv, Listens
      <4> QED
        BY <1>1, <2>8, <2>11, <4>1, EmptyWire DEF ReadsInv
    <3>2. CASE IsOpen(client.stream)
      <4>1. /\ client'.update = client.update
            /\ client'.target.outstanding_responses = client.target.outstanding_responses + 1
        BY <2>4, <3>2 DEF Listens, IsStarted, IsOpen
      <4>2. ~ IsActiveTarget(client')
        BY <4>1, RepliesDue DEF IsActiveTarget
      <4>3. ~ (client'.target.outstanding_responses <= Cardinality(Replies(fromServer)))
        BY <4>1, RepliesDue
      <4>4. \A i \in DOMAIN fromServer : ~ Live(i)'
        BY <1>1, <4>3 DEF Live
      <4> QED
        BY <1>1, <2>8, <2>11, <4>1, <4>2, <4>4, NothingLive DEF ReadsInv
    <3> QED
      BY <3>1, <3>2
  <2> QED
    BY <2>5, <2>7, <2>12 DEF ReadsInv
<1>8. CASE client.listeners # {}
  <2>1. client.snapshot # Nil
    BY <1>6, <1>8 DEF Linked, InStep
  <2>2. Becomes(JoinListeners(AddListener(client, g), g))
    BY <1>8 DEF AddQueryListener
  <2> HIDE DEF g, L, B, r
  <2>3. /\ Told(L, Tellable(Known, B, r))
        /\ SameStore(client, client') /\ SameRemote(client, client')
        /\ client'.view = client.view
        /\ client'.listeners = client.listeners \cup {g}
    BY <1>3, <1>5, <2>1, <2>2, JoinEffect
  <2>4. CacheInv' /\ Known' = B /\ client'.cache = client.cache
    BY <1>1, <2>3, CacheSame DEF ReadsInv, SameStore, B
  <2>5. /\ ViewShows(client', B, r) /\ r = refused' /\ refused \subseteq r
        /\ B = Known' /\ Known \subseteq B /\ client'.listeners \subseteq L
        /\ client'.view # Nil /\ client'.view.current =>
              client'.view.since <= 1 \/ client'.view.since <= client'.cache.version
    <3>1. ViewShows(client', B, r)
      BY <2>3 DEF B, r, ReadsInv, KnownInv, ViewShows, SameStore, LocalView
    <3> QED
      BY <1>1, <1>3, <2>3, <2>4, <3>1 DEF B, L, r, ReadsInv, FreshInv
  <2>6. KnownInv' /\ FreshInv'
    BY <1>1, <1>3, <1>4, <2>3, <2>5, ToldKnown
  <2>7. client'.cache.version \in Nat /\ client.cache.version <= client'.cache.version
    <3>1. client.cache.version \in Nat
      BY <1>2 DEF Clients
    <3> QED
      BY <2>4, <3>1
  <2>8. DeliveryInv' /\ WatchInv'
    BY <1>1, <2>3, <2>7, SameWire DEF ReadsInv, SameStore, SameTokens
  <2> QED
    BY <2>4, <2>6, <2>8 DEF ReadsInv
<1> QED
  BY <1>7, <1>8

LEMMA RemoveQueryListenerReads == IInv /\ ReadsInv /\ IInv' /\ RemoveQueryListener => ReadsInv'
<1> SUFFICES ASSUME IInv, ReadsInv, IInv', RemoveQueryListener PROVE ReadsInv'
  OBVIOUS
<1> DEFINE g == Head(worker).get
           L == client.listeners
           B == Known
           r == refused
<1>1. /\ worker # <<>> /\ Head(worker).type # "write" /\ worker' = Tail(worker)
      /\ UNCHANGED <<Reports, log, watched>> /\ UNCHANGED <<log, watched, fromServer>>
      /\ UNCHANGED <<log, applied, refused>> /\ UNCHANGED <<log, watched>> /\ refused' = refused
      /\ Becomes(RemoveListener(client, g))
  BY DEF RemoveQueryListener, Task, serverVars, appVars, Reports
<1>2. /\ Sound(client, L, Tellable(Known, B, r)) /\ TrackerOK(client)
      /\ client \in Clients /\ L \in SUBSET Gets
  BY SoundReads, StartsSound
<1>3. \A h \in L : must[h] \subseteq Known
  BY DEF ReadsInv, KnownInv
<1> HIDE DEF g, L, B, r
<1>4. /\ Told(L, Tellable(Known, B, r)) /\ SameStore(client, client')
      /\ client'.listeners = client.listeners \ {g}
      /\ Removes(client, client')
  BY <1>1, <1>2, RemoveEffect
<1>5. CacheInv' /\ Known' = B /\ client'.cache = client.cache
  BY <1>1, <1>4, CacheSame DEF ReadsInv, SameStore, B
<1>6. client'.view = client.view \/ client'.view = Nil
  BY <1>4 DEF Removes, StopsListening
<1>7. /\ ViewShows(client', B, r) /\ r = refused' /\ refused \subseteq r
      /\ B = Known' /\ Known \subseteq B /\ client'.listeners \subseteq L
      /\ client'.view # Nil /\ client'.view.current =>
            client'.view.since <= 1 \/ client'.view.since <= client'.cache.version
  <2>1. ViewShows(client', B, r)
    BY <1>4, <1>6 DEF B, r, ReadsInv, KnownInv, ViewShows, SameStore, LocalView
  <2> QED
    BY <1>1, <1>4, <1>5, <1>6, <2>1 DEF B, L, r, ReadsInv, FreshInv
<1>8. KnownInv' /\ FreshInv'
  BY <1>1, <1>2, <1>3, <1>4, <1>7, ToldKnown
<1>9. SameTokens(client, client') /\ client'.resume_token = client.resume_token
      /\ TokensOK(client)
  BY <1>4 DEF SameStore, SameTokens, ReadsInv, WatchInv
<1>10. DeliveryInv' /\ WatchInv'
  <2>1. CASE SameRemote(client, client') /\ client'.view = client.view
    <3>1. client'.cache.version \in Nat /\ client.cache.version <= client'.cache.version
      <4>1. client.cache.version \in Nat
        BY <1>2 DEF Clients
      <4> QED
        BY <1>5, <4>1
    <3> QED
      BY <1>1, <1>9, <2>1, <3>1, SameWire DEF ReadsInv
  <2>2. CASE StopsListening(client, client')
    <3>1. /\ client'.listening = FALSE /\ client'.update = client.update
          /\ \/ client'.requests = client.requests
             \/ client'.requests = Append(client.requests, [type |-> "unwatch"])
      BY <2>2 DEF StopsListening
    <3>2. \A i \in DOMAIN client'.requests : client'.requests[i].type = "watch"
             => client'.requests[i].resume_token <= client'.resume_token
      BY <1>2, <1>9, <3>1, RequestTokens
    <3>3. TokensOK(client')
      BY <1>5, <1>9, <3>1, <3>2 DEF TokensOK, SameTokens
    <3>4. ~ IsActiveTarget(client') /\ \A i \in DOMAIN fromServer : ~ Live(i)'
      BY <3>1 DEF IsActiveTarget, Live
    <3> QED
      BY <1>1, <1>9, <3>1, <3>3, <3>4, NothingLive DEF ReadsInv
  <2> QED
    BY <1>4, <2>1, <2>2 DEF Removes
<1> QED
  BY <1>5, <1>8, <1>10 DEF ReadsInv

\* A view that is current shows what watch had.
LEMMA FreshNow ==
    ASSUME NEW c, NEW s, NEW versions, CacheOK(c.cache, c.queue, versions),
           s.settled => c.queue = <<>> /\ ~ c.cache.committed /\ s.has = LocalView(c).has,
           s.since \in Nat, c.cache.version \in Nat,
           ~ s.from_cache => s.since <= 1 \/ s.since <= c.cache.version
    PROVE  Fresh(s)
<1> SUFFICES ASSUME ~ s.from_cache, s.settled PROVE ContentAt(s.since) \subseteq s.has
  BY DEF Fresh
<1>1. c.cache.has = ContentAt(c.cache.version) /\ c.cache.has \subseteq s.has
  BY DEF CacheOK, LocalView, Found
<1>2. CASE s.since <= 1
  <2>1. 2..s.since = {}
    BY <1>2
  <2> QED
    BY <2>1 DEF ContentAt
<1>3. CASE s.since <= c.cache.version
  BY <1>1, <1>3, ContentGrows
<1> QED
  BY <1>2, <1>3

\* The store changes, and nothing that was shown is taken back.
LEMMA StoreReads ==
    ASSUME IInv, ReadsInv, IInv', UNCHANGED <<Reports, log, watched, fromServer>>,
           NEW c, OnlyStore(client, c), SameTokens(client, c),
           NEW r, r = refused', refused \subseteq r,
           NEW B, B = KnownTo(c) \cup r, Known \subseteq B,
           Found(c.cache) /\ ~ LocalView(c).local => B \subseteq Known,
           client.cache.version <= c.cache.version, CacheOK(c.cache, c.queue, applied'),
           Becomes(EmitNewSnapshots(c, LocalView(c), Nil)),
           \/ UNCHANGED worker
           \/ /\ worker # <<>> /\ worker' = Tail(worker)
              /\ Head(worker).type = "write" => Head(worker).write \in B
    PROVE  ReadsInv'
<1> DEFINE L == client.listeners
           S == Tellable(Known, B, r)
           doc == LocalView(c)
           none == Nil
<1>1. /\ c \in Clients /\ SameRemote(client, c) /\ c.view = client.view
      /\ c.listeners = L /\ c.snapshot = client.snapshot /\ c.posts = client.posts
  BY DEF OnlyStore, SameViews
<1>2. L \in SUBSET Gets /\ L \subseteq L
  BY StartsSound
<1>3. Sound(client, L, S)
  BY <1>2, TellableSound
<1>4. /\ Tells(c, L, S) /\ S \subseteq Snapshots /\ L \subseteq Gets
  BY <1>1, <1>3 DEF Sound, Tells
<1>0. /\ LocalView(c).has \subseteq KnownTo(c) /\ Shows(LocalView(c).has, KnownTo(c) \cup r, r)
  <2>1. r \in SUBSET OwnWrites
    BY DEF IInv, TypeOK
  <2> QED
    BY <1>1, <2>1, ShowsLocal
<1>5. /\ doc \in LocalDocuments \cup {Nil} /\ doc # Nil /\ doc \in LocalDocuments
      /\ doc = LocalView(c) /\ none \in TargetChanges \cup {Nil}
      /\ doc.has \subseteq B /\ Shows(doc.has, B, r) /\ doc.committed = c.cache.committed
      /\ doc.has # {} => Found(c.cache)
      /\ Found(c.cache) /\ ~ doc.local => B \subseteq Known
      /\ Becomes(EmitNewSnapshots(c, doc, none)) /\ none = Nil
  <2>1. doc = LocalView(c) /\ none = Nil
    OBVIOUS
  <2>2. doc.committed = c.cache.committed /\ (doc.has # {} => Found(c.cache))
    BY DEF LocalView
  <2> QED
    BY <1>0, <1>1, <2>1, <2>2, LocalViewType
<1> HIDE DEF L, S, doc, none
<1>6. /\ SameStore(c, client') /\ SameRemote(c, client')
      /\ client'.listeners = c.listeners
      /\ c.view = Nil => client'.view = Nil
      /\ c.view # Nil =>
            /\ client'.view # Nil /\ client'.view.since = c.view.since
            /\ doc # Nil /\ (doc.has = c.view.has \/ doc.local \/ ~ doc.committed \/ ~ c.view.local)
                  => client'.view.has = doc.has
            /\ doc # Nil => ShowsOrWaits(c, client', doc)
            /\ client'.view.synced <=> c.view.synced \/ (none # Nil /\ none.change = "added")
            /\ client'.view.current <=> IF none = Nil THEN c.view.current ELSE none.current
      /\ (c.view # Nil => \A s \in Snapshots :
             /\ s.has = client'.view.has /\ s.since = c.view.since
             /\ s.from_cache \/ client'.view.current
             /\ s.settled <=> c.queue = <<>> /\ ~ c.cache.committed
             => s \in S)
         => Told(L, S) /\ client'.snapshot \in S \cup {Nil}
  BY <1>4, <1>5, EmitEffect
<1>7. client.view # Nil => /\ client.view.since <= watched
                           /\ client.view.has \subseteq Known /\ Shows(client.view.has, Known, refused)
  BY DEF IInv, SinceInv, ReadsInv, KnownInv, ViewShows
<1>8. client.view # Nil => /\ client'.view # Nil /\ client'.view.since = client.view.since
                           /\ client'.view.has \subseteq B /\ Shows(client'.view.has, B, r)
                           /\ ~ c.cache.committed => client'.view.has = LocalView(c).has
                           /\ client'.view.synced = client.view.synced
                           /\ client'.view.current = client.view.current
  <2>1. ASSUME client.view # Nil
        PROVE  /\ client'.view # Nil /\ client'.view.since = client.view.since
               /\ client'.view.synced <=> client.view.synced
               /\ client'.view.current <=> client.view.current
               /\ client'.view.has \subseteq B /\ Shows(client'.view.has, B, r)
               /\ ~ c.cache.committed => client'.view.has = LocalView(c).has
    <3>1. /\ client'.view # Nil /\ client'.view.since = client.view.since
          /\ client'.view.synced <=> client.view.synced
          /\ client'.view.current <=> client.view.current
          /\ ShowsOrWaits(c, client', doc)
      BY <1>1, <1>5, <1>6, <2>1
    <3>2. CASE client'.view.has = doc.has
      BY <1>5, <3>1, <3>2
    <3>3. CASE /\ client'.view.has = client.view.has /\ client.view.has # {} /\ doc.has # {}
               /\ doc.committed /\ ~ doc.local
      <4>1. client.view.has \subseteq Known /\ Known \subseteq client.view.has \cup refused
        BY <1>7, <2>1, <3>3 DEF Shows
      <4>2. B \subseteq Known
        BY <1>5, <3>3
      <4>3. client.view.has \subseteq B /\ Shows(client.view.has, B, r)
        BY <3>3, <4>1, <4>2 DEF Shows
      <4> QED
        BY <1>5, <3>1, <3>3, <4>3
    <3> QED
      BY <1>1, <3>1, <3>2, <3>3 DEF ShowsOrWaits
  <2>2. client.view # Nil => client.view \in Views /\ client'.view \in Views \cup {Nil}
    BY DEF IInv, TypeOK, Clients
  <2> QED
    BY <2>1, <2>2 DEF Views
<1>9. c.cache.version \in Nat /\ client.cache.version \in Nat
  BY <1>1 DEF Clients, IInv, TypeOK
<1>10. client.view # Nil /\ client.view.current =>
          client.view.since <= 1 \/ client.view.since <= c.cache.version
  <2>1. client.view # Nil => client.view.since \in Nat
    <3>1. client.view \in Views \cup {Nil}
      BY DEF IInv, TypeOK, Clients
    <3> QED
      BY <3>1 DEF Views
  <2>2. client.view # Nil /\ client.view.current =>
          client.view.since <= 1 \/ client.view.since <= client.cache.version
    BY DEF ReadsInv, FreshInv
  <2> QED
    BY <1>9, <2>1, <2>2
<1>11. Told(L, S)
  <2>1. ASSUME c.view # Nil, NEW s \in Snapshots,
               s.has = client'.view.has, s.since = c.view.since,
               s.from_cache \/ client'.view.current,
               s.settled <=> c.queue = <<>> /\ ~ c.cache.committed
        PROVE  s \in S
    <3>1. /\ s.since <= watched /\ s.since \in Nat
          /\ ~ s.from_cache => s.since <= 1 \/ s.since <= c.cache.version
          /\ s.has \subseteq B /\ Shows(s.has, B, r)
          /\ ~ c.cache.committed => s.has = LocalView(c).has
      BY <1>1, <1>7, <1>8, <1>10, <2>1 DEF Snapshots
    <3>2. Fresh(s)
      BY <1>9, <2>1, <3>1, FreshNow
    <3>3. Shows(s.has, Known, r)
      BY <3>1, ShowsLess
    <3> QED
      BY <3>1, <3>2, <3>3 DEF S, Tellable
  <2> QED
    BY <1>6, <2>1
<1>12. /\ client'.cache = c.cache /\ client'.queue = c.queue
       /\ SameTokens(client, client') /\ SameRemote(client, client')
  BY <1>1, <1>6 DEF SameStore, SameTokens, SameRemote
<1>13. CacheInv' /\ Known' = B
  <2>1. Settled(client.cache)' = Settled(c.cache)
    BY <1>12, SettledSame DEF Settled, ContentAt
  <2>2. CacheInv'
    BY <1>12, ContentSame DEF CacheInv, CacheOK
  <2> QED
    BY <1>12, <2>1, <2>2 DEF Known, KnownTo, Elements
<1>14. \A g \in L : must[g] \subseteq Known
  BY DEF ReadsInv, KnownInv, L
<1>15. /\ client'.listeners \subseteq L
       /\ ViewShows(client', B, r)
       /\ client'.view # Nil /\ client'.view.current =>
             client'.view.since <= 1 \/ client'.view.since <= client'.cache.version
  <2>1. client.view = Nil => client'.view = Nil
    BY <1>1, <1>6
  <2>2. LocalView(client').has = LocalView(c).has
    BY <1>12 DEF LocalView
  <2>3. ViewShows(client', B, r)
    BY <1>8, <1>12, <2>1, <2>2 DEF ViewShows
  <2> QED
    BY <1>1, <1>6, <1>8, <1>10, <1>12, <2>1, <2>3
<1>16. KnownInv' /\ FreshInv'
  BY <1>2, <1>11, <1>13, <1>14, <1>15, ToldKnown DEF S
<1>17. client.listening => client.view # Nil
  BY DEF IInv, AssertionsHold
<1>18. DeliveryInv' /\ WatchInv'
  BY <1>8, <1>9, <1>12, <1>17, SameWire DEF ReadsInv
<1> QED
  BY <1>13, <1>16, <1>18 DEF ReadsInv

LEMMA WriteLocallyReads == IInv /\ ReadsInv /\ IInv' /\ WriteLocally => ReadsInv'
<1> SUFFICES ASSUME IInv, ReadsInv, IInv', WriteLocally PROVE ReadsInv'
  OBVIOUS
<1> DEFINE w == Head(worker).write
           queue == Append(client.queue, w)
<1>1. /\ worker # <<>> /\ Head(worker).type = "write" /\ worker' = Tail(worker)
      /\ UNCHANGED <<Reports, log, watched, fromServer>> /\ applied' = applied
      /\ refused' = refused
  BY DEF WriteLocally, Task, serverVars, appVars, Reports
<1>2. PICK c : /\ c = [client EXCEPT !.queue = queue]
               /\ Becomes(EmitNewSnapshots(c, LocalView(c), Nil))
  BY DEF WriteLocally
<1>3. client \in Clients /\ client.queue \in Seq(OwnWrites) /\ w \in OwnWrites
      /\ applied \in Seq(Nat) /\ Len(applied) <= Len(client.queue)
  <2>1. Head(worker) \in Tasks
    BY <1>1, TaskTaken
  <2>2. w \in OwnWrites
    BY <1>1, <2>1 DEF Tasks
  <2> QED
    BY <2>2 DEF IInv, TypeOK, Clients
<1>4. queue \in Seq(OwnWrites) /\ queue # <<>> /\ Elements(queue) = Elements(client.queue) \cup {w}
      /\ \A i \in DOMAIN applied : queue[i] = client.queue[i]
  BY <1>3, ElementsOfAppend
<1> HIDE DEF queue, w
<1>5. OnlyStore(client, c) /\ SameTokens(client, c) /\ c.queue = queue /\ c.cache = client.cache
  <2>1. c \in Clients
    BY <1>2, <1>3, <1>4 DEF Clients
  <2>2. SameRemote(client, c) /\ SameTracker(client, c)
    BY <1>2, <1>3 DEF Clients, SameRemote, SameTracker
  <2>3. SameViews(client, c) /\ SameTokens(client, c) /\ c.queue = queue /\ c.cache = client.cache
    BY <1>2, <1>3 DEF Clients, SameViews, SameTokens
  <2> QED
    BY <2>1, <2>2, <2>3 DEF OnlyStore
<1> DEFINE B == KnownTo(c) \cup refused
<1>6. B = Known \cup {w} /\ (Found(c.cache) => LocalView(c).local)
  BY <1>4, <1>5 DEF LocalView, Known, KnownTo
<1>7. CacheOK(c.cache, c.queue, applied')
  BY <1>1, <1>4, <1>5 DEF CacheOK, ReadsInv, CacheInv
<1>8. client.cache.version <= c.cache.version
  <2>1. client.cache.version \in Nat
    BY <1>3 DEF Clients
  <2> QED
    BY <1>5, <2>1
<1>9. /\ B = KnownTo(c) \cup refused' /\ Known \subseteq B /\ Head(worker).write \in B
      /\ Found(c.cache) /\ ~ LocalView(c).local => B \subseteq Known
  BY <1>1, <1>6 DEF w
<1> HIDE DEF B
<1> QED
  BY <1>1, <1>2, <1>5, <1>7, <1>8, <1>9, StoreReads

LEMMA WriteAcknowledgedReads == IInv /\ ReadsInv /\ IInv' /\ WriteAcknowledged => ReadsInv'
<1> SUFFICES ASSUME IInv, ReadsInv, IInv', WriteAcknowledged PROVE ReadsInv'
  OBVIOUS
<1>1. /\ applied # <<>> /\ Head(applied) # Refusal /\ applied' = Tail(applied)
      /\ UNCHANGED <<Reports, log, watched, fromServer>> /\ UNCHANGED worker
      /\ refused' = refused
  BY DEF WriteAcknowledged, appVars, Reports
<1>2. PICK c : /\ c = AcknowledgeBatch(client, Head(applied))
               /\ Becomes(EmitNewSnapshots(c, LocalView(c), Nil))
  BY DEF WriteAcknowledged
<1>3. /\ OnlyStore(client, c) /\ SameTokens(client, c)
      /\ KnownTo(client) \subseteq KnownTo(c)
      /\ Found(c.cache) => KnownTo(c) = KnownTo(client)
      /\ client.cache.version <= c.cache.version
      /\ CacheOK(c.cache, c.queue, Tail(applied))
  BY <1>1, <1>2, AckFacts DEF ReadsInv
<1> DEFINE B == KnownTo(c) \cup refused
<1>4. /\ B = KnownTo(c) \cup refused' /\ Known \subseteq B
      /\ Found(c.cache) /\ ~ LocalView(c).local => B \subseteq Known
      /\ CacheOK(c.cache, c.queue, applied')
  BY <1>1, <1>3 DEF Known
<1> HIDE DEF B
<1> QED
  BY <1>1, <1>2, <1>3, <1>4, StoreReads

LEMMA WriteRejectedReads == IInv /\ ReadsInv /\ IInv' /\ WriteRejected => ReadsInv'
<1> SUFFICES ASSUME IInv, ReadsInv, IInv', WriteRejected PROVE ReadsInv'
  OBVIOUS
<1>1. /\ applied # <<>> /\ Head(applied) = Refusal /\ applied' = Tail(applied)
      /\ UNCHANGED <<Reports, log, watched, fromServer>> /\ UNCHANGED worker
      /\ refused' = refused \cup {Head(client.queue)}
  BY DEF WriteRejected, Reports
<1>2. PICK c : /\ c = RejectBatch(client)
               /\ Becomes(EmitNewSnapshots(c, LocalView(c), Nil))
  BY DEF WriteRejected
<1>3. /\ OnlyStore(client, c) /\ SameTokens(client, c) /\ c.cache = client.cache
      /\ KnownTo(c) \cup {Head(client.queue)} = KnownTo(client)
      /\ Head(client.queue) \in OwnWrites
      /\ CacheOK(c.cache, c.queue, Tail(applied))
  BY <1>1, <1>2, RejectFacts DEF ReadsInv
<1>4. Known = KnownTo(c) \cup refused' /\ Known \subseteq Known /\ refused \subseteq refused'
  BY <1>1, <1>3 DEF Known
<1>5. client.cache.version <= c.cache.version /\ CacheOK(c.cache, c.queue, applied')
  <2>1. client.cache.version \in Nat
    BY DEF IInv, TypeOK, Clients
  <2> QED
    BY <1>1, <1>3, <2>1
<1> QED
  BY <1>1, <1>2, <1>3, <1>4, <1>5, StoreReads

-----------------------------------------------------------------------------
(* The server.                                                              *)

\* In what the server sends at once, a document comes right before the
\* snapshot, or before the news that the target is current.
WithDocument(t, j) ==
    \/ j - 1 \in DOMAIN t /\ t[j - 1].type = "document"
    \/ /\ j - 1 \in DOMAIN t /\ t[j - 1].type = "current"
       /\ j - 2 \in DOMAIN t /\ t[j - 2].type = "document"

Sends(t) ==
    /\ t \in Seq(Messages)
    /\ \A j \in DOMAIN t : j > 1 => ~ IsReply(t[j])
    /\ \A j \in DOMAIN t : t[j].type = "snapshot" => t[j].version = watched
    /\ \A j \in DOMAIN t : t[j].type = "current" => j + 1 \in DOMAIN t /\ t[j + 1].type = "snapshot"
    /\ \A j \in DOMAIN t : t[j].type = "document" =>
          /\ t[j].version = watched /\ Delivered(t[j])
          /\ j + 1 \in DOMAIN t /\ t[j + 1].type \in {"current", "snapshot"}
    /\ \A j \in DOMAIN t : t[j].type = "snapshot" /\ watched >= 2 /\ client.listening =>
          WithDocument(t, j) \/ (client.view.synced /\ watched <= client.cache.version)

LEMMA WireGrows ==
    ASSUME NEW T, NEW s \in Seq(T), NEW t \in Seq(T), NEW u, u = s \o t
    PROVE  /\ Len(s) \in Nat /\ DOMAIN s = 1..Len(s)
           /\ \A i \in DOMAIN s : i \in DOMAIN u /\ u[i] = s[i]
           /\ \A j \in DOMAIN t : j \in Nat /\ j >= 1 /\ Len(s) + j \in DOMAIN u /\ u[Len(s) + j] = t[j]
           /\ \A i \in DOMAIN u : i \in DOMAIN s \/ (i - Len(s) \in DOMAIN t /\ i = Len(s) + (i - Len(s)))
<1>1. /\ Len(s) \in Nat /\ DOMAIN s = 1..Len(s) /\ Len(t) \in Nat /\ DOMAIN t = 1..Len(t)
  OBVIOUS
<1>2. /\ DOMAIN u = 1..(Len(s) + Len(t))
      /\ \A i \in 1..(Len(s) + Len(t)) : u[i] = IF i <= Len(s) THEN s[i] ELSE t[i - Len(s)]
  BY ConcatProperties, LenProperties
<1>3. ASSUME NEW i \in DOMAIN s PROVE i \in DOMAIN u /\ u[i] = s[i]
  BY <1>1, <1>2
<1>4. ASSUME NEW j \in DOMAIN t
      PROVE  j \in Nat /\ j >= 1 /\ Len(s) + j \in DOMAIN u /\ u[Len(s) + j] = t[j]
  <2>1. j \in Nat /\ j >= 1 /\ Len(s) + j \in 1..(Len(s) + Len(t)) /\ ~ (Len(s) + j <= Len(s))
        /\ (Len(s) + j) - Len(s) = j
    BY <1>1
  <2> QED
    BY <1>2, <2>1
<1>5. ASSUME NEW i \in DOMAIN u
      PROVE  i \in DOMAIN s \/ (i - Len(s) \in DOMAIN t /\ i = Len(s) + (i - Len(s)))
  BY <1>1, <1>2
<1> QED
  BY <1>1, <1>3, <1>4, <1>5

LEMMA SentReads ==
    ASSUME IInv, ReadsInv, UNCHANGED <<worker, main, appVars, log, applied, watched>>,
           SameStore(client, client'), SameViews(client, client'),
           client'.listening = client.listening, client'.target = client.target,
           client'.update = client.update,
           \A i \in DOMAIN client'.requests : client'.requests[i].type = "watch"
              => client'.requests[i].resume_token <= client.resume_token,
           NEW t, Sends(t), fromServer' = fromServer \o t
    PROVE  ReadsInv'
<1> DEFINE n == Len(fromServer)
<1>1. /\ t \in Seq(Messages) /\ fromServer \in Seq(Messages) /\ watched \in Nat
  BY DEF Sends, IInv, TypeOK
<1>2. /\ n \in Nat /\ DOMAIN fromServer = 1..n
      /\ \A i \in DOMAIN fromServer : i \in DOMAIN fromServer' /\ fromServer'[i] = fromServer[i]
      /\ \A j \in DOMAIN t : j \in Nat /\ j >= 1 /\ n + j \in DOMAIN fromServer' /\ fromServer'[n + j] = t[j]
      /\ \A i \in DOMAIN fromServer' :
            i \in DOMAIN fromServer \/ (i - n \in DOMAIN t /\ i = n + (i - n))
  BY <1>1, WireGrows
<1> HIDE DEF n
<1>3. CacheInv' /\ KnownInv' /\ FreshInv'
  BY KnownSame DEF SameViews, appVars
<1>4. /\ SameTokens(client, client') /\ client'.view = client.view
      /\ client'.cache = client.cache /\ IsActiveTarget(client') = IsActiveTarget(client)
  BY DEF SameStore, SameTokens, SameViews, IsActiveTarget
<1>5. \A doc : Delivered(doc)' <=> Delivered(doc)
  BY ContentSame DEF Delivered
<1>6. DeliveryInv /\ WatchInv
  BY DEF ReadsInv
<1>7. DeliveryInv'
  <2>1. ASSUME NEW i \in DOMAIN fromServer', fromServer'[i].type = "snapshot"
        PROVE  /\ fromServer'[i].version \in 1..watched
               /\ client.last_remote_snapshot <= fromServer'[i].version
               /\ \A j \in DOMAIN fromServer' : i < j /\ fromServer'[j].type = "snapshot"
                     => fromServer'[i].version <= fromServer'[j].version
    <3>1. watched \in 1..watched /\ client.last_remote_snapshot <= watched /\ watched <= watched
      <4>1. watched \in DOMAIN log /\ log \in Seq(Writes \cup {NoDocument})
        BY DEF IInv, TypeOK
      <4>2. watched >= 1
        BY ONLY <4>1
      <4> QED
        BY <1>1, <1>6, <4>2 DEF DeliveryInv
    <3>2. ASSUME NEW j \in DOMAIN fromServer', fromServer'[j].type = "snapshot", j \notin DOMAIN fromServer
          PROVE  fromServer'[j].version = watched
      <4>1. j - n \in DOMAIN t /\ fromServer'[j] = t[j - n]
        BY <1>2, <3>2
      <4> QED
        BY <3>2, <4>1 DEF Sends
    <3>3. CASE i \in DOMAIN fromServer
      <4>1. /\ fromServer'[i] = fromServer[i] /\ fromServer[i].version \in 1..watched
            /\ client.last_remote_snapshot <= fromServer[i].version
            /\ \A j \in DOMAIN fromServer : i < j /\ fromServer[j].type = "snapshot"
                  => fromServer[i].version <= fromServer[j].version
        BY <1>2, <1>6, <2>1, <3>3 DEF DeliveryInv
      <4>2. ASSUME NEW j \in DOMAIN fromServer', i < j, fromServer'[j].type = "snapshot"
            PROVE  fromServer'[i].version <= fromServer'[j].version
        <5>1. CASE j \in DOMAIN fromServer
          BY <1>2, <4>1, <4>2, <5>1
        <5>2. CASE j \notin DOMAIN fromServer
          BY <1>1, <3>2, <4>1, <4>2, <5>2
        <5> QED
          BY <5>1, <5>2
      <4> QED
        BY <4>1, <4>2
    <3>4. CASE i \notin DOMAIN fromServer
      <4>1. fromServer'[i].version = watched
        BY <2>1, <3>2, <3>4
      <4>2. \A j \in DOMAIN fromServer' : i < j => j \notin DOMAIN fromServer
        <5>1. i \in Nat /\ i > n
          BY <1>2, <3>4
        <5> QED
          BY <1>2, <5>1
      <4> QED
        BY <3>1, <3>2, <4>1, <4>2
    <3> QED
      BY <3>3, <3>4
  <2>2. ASSUME NEW i \in DOMAIN fromServer'
        PROVE  /\ fromServer'[i].type = "current" =>
                     i + 1 \in DOMAIN fromServer' /\ fromServer'[i + 1].type = "snapshot"
               /\ fromServer'[i].type = "document" =>
                     /\ Delivered(fromServer'[i])
                     /\ i + 1 \in DOMAIN fromServer'
                     /\ fromServer'[i + 1].type \in {"current", "snapshot"}
    <3>1. CASE i \in DOMAIN fromServer
      BY <1>2, <1>6, <3>1 DEF DeliveryInv
    <3>2. CASE i \notin DOMAIN fromServer
      <4>1. PICK j \in DOMAIN t : i = n + j /\ j \in Nat /\ fromServer'[i] = t[j]
        BY <1>2, <3>2
      <4>2. j + 1 \in DOMAIN t => i + 1 \in DOMAIN fromServer' /\ fromServer'[i + 1] = t[j + 1]
        <5>1. i + 1 = n + (j + 1)
          BY <1>2, <4>1
        <5> QED
          BY <1>2, <5>1
      <4> QED
        BY <4>1, <4>2 DEF Sends
    <3> QED
      BY <3>1, <3>2
  <2>3. client.update # Nil => 1 \in DOMAIN fromServer' /\ fromServer'[1] = fromServer[1]
    BY <1>2, <1>6 DEF DeliveryInv
  <2>4. /\ client'.resume_token = client.resume_token /\ client'.update = client.update
        /\ client'.last_remote_snapshot = client.last_remote_snapshot
        /\ client'.target = client.target
    BY <1>4 DEF SameTokens
  <2> QED
    BY <1>4, <1>5, <1>6, <2>1, <2>2, <2>3, <2>4 DEF DeliveryInv
<1>8. TokensOK(client')
  BY <1>4, <1>6 DEF WatchInv, TokensOK, SameTokens
<1>9. ASSUME NEW i \in DOMAIN fromServer', fromServer'[i].type = "snapshot", Live(i)'
      PROVE  /\ client.view.since <= fromServer'[i].version
             /\ fromServer'[i].version >= 2 =>
                   \/ client.view.synced /\ fromServer'[i].version <= client.cache.version
                   \/ Precedes(i, fromServer[i].version)'
  <2>1. /\ client.listening
        /\ client.target.outstanding_responses <= Cardinality(Replies(fromServer'))
        /\ \A j \in Replies(fromServer') : j < i
    BY <1>9 DEF Live
  <2>2. CASE i \in DOMAIN fromServer
    <3>1. \A j \in DOMAIN t : ~ IsReply(t[j])
      <4>1. SUFFICES ASSUME NEW j \in DOMAIN t, IsReply(t[j]) PROVE FALSE
        OBVIOUS
      <4>2. n + j \in Replies(fromServer') /\ j \in Nat
        BY <1>2, <4>1 DEF Replies
      <4> QED
        BY <1>2, <2>1, <2>2, <4>2
    <3>2. Cardinality(Replies(fromServer')) <= Cardinality(Replies(fromServer))
      BY <1>1, <3>1, RepliesOfConcat
    <3>3. fromServer' \in Seq(Messages)
      BY <1>1, ConcatProperties
    <3>4. /\ Cardinality(Replies(fromServer')) \in Nat /\ Cardinality(Replies(fromServer)) \in Nat
          /\ client.target.outstanding_responses \in Nat
      BY <1>1, <3>3, RepliesDue, RepliesFinite
    <3>5. client.target.outstanding_responses <= Cardinality(Replies(fromServer))
      BY <2>1, <3>2, <3>4
    <3>6. \A j \in Replies(fromServer) : j < i
      BY <1>2, <2>1 DEF Replies
    <3>7. Live(i) /\ fromServer'[i] = fromServer[i]
      BY <1>2, <2>1, <2>2, <3>5, <3>6 DEF Live
    <3>8. \A k, v : DocumentAt(k, v) => DocumentAt(k, v)'
      BY <1>2 DEF DocumentAt
    <3>9. \A v : Precedes(i, v) => Precedes(i, v)'
      BY <1>2, <3>8 DEF Precedes
    <3> QED
      BY <1>6, <1>9, <2>2, <3>7, <3>9 DEF WatchInv
  <2>3. CASE i \notin DOMAIN fromServer
    <3>1. PICK j \in DOMAIN t : i = n + j /\ j \in Nat /\ fromServer'[i] = t[j]
      BY <1>2, <2>3
    <3>2. fromServer'[i].version = watched /\ client.view.since <= watched
      BY <1>9, <2>1, <3>1 DEF Sends, IInv, SinceInv, AssertionsHold
    <3>3. ASSUME watched >= 2
          PROVE  WithDocument(t, j) \/ (client.view.synced /\ watched <= client.cache.version)
      BY <1>9, <2>1, <3>1, <3>3 DEF Sends
    <3>4. ASSUME WithDocument(t, j) PROVE Precedes(i, watched)'
      <4>1. i - 1 = n + (j - 1) /\ i - 2 = n + (j - 2)
        BY <1>2, <3>1
      <4>2. j - 1 \in DOMAIN t => i - 1 \in DOMAIN fromServer' /\ fromServer'[i - 1] = t[j - 1]
        BY <1>2, <4>1
      <4>3. j - 2 \in DOMAIN t => i - 2 \in DOMAIN fromServer' /\ fromServer'[i - 2] = t[j - 2]
        BY <1>2, <4>1
      <4>4. \A k \in DOMAIN t : t[k].type = "document" => t[k].version = watched
        BY DEF Sends
      <4> QED
        BY <3>4, <4>2, <4>3, <4>4 DEF WithDocument, Precedes, DocumentAt
    <3> QED
      BY <3>2, <3>3, <3>4
  <2> QED
    BY <2>2, <2>3
<1>10. WatchInv'
  BY <1>4, <1>8, <1>9 DEF WatchInv
<1> QED
  BY <1>3, <1>7, <1>10 DEF ReadsInv

LEMMA ServerUpdateReads == IInv /\ ReadsInv /\ ServerUpdate => ReadsInv'
<1> SUFFICES ASSUME IInv, ReadsInv, ServerUpdate PROVE ReadsInv'
  OBVIOUS
<1> DEFINE t == <<DocumentMessage, SnapshotMessage>>
<1>1. /\ target > 0 /\ target < watched /\ fromServer' = fromServer \o t
      /\ UNCHANGED <<worker, main, appVars, log, applied, watched>> /\ UNCHANGED client
  BY DEF ServerUpdate
<1>2. watched \in Nat /\ target \in Nat /\ TypeOK /\ SinceInv
  BY DEF IInv, TypeOK
<1>3. watched >= 2
  BY <1>1, <1>2
<1>4. /\ DocumentMessage \in Messages /\ SnapshotMessage \in Messages
      /\ DocumentMessage.type = "document" /\ SnapshotMessage.type = "snapshot"
      /\ DocumentMessage.version = watched /\ SnapshotMessage.version = watched
      /\ DocumentMessage.has = ContentAt(watched)
  BY <1>2, ServerMessages DEF DocumentMessage, SnapshotMessage
<1>5. Delivered(DocumentMessage)
  BY <1>2, <1>3, <1>4 DEF Delivered
<1>6. t \in Seq(Messages) /\ DOMAIN t = {1, 2} /\ t[1] = DocumentMessage /\ t[2] = SnapshotMessage
      /\ 1 + 1 = 2 /\ 2 - 1 = 1
  <2>1. t \in Seq(Messages) /\ t[1] = DocumentMessage /\ t[2] = SnapshotMessage /\ DOMAIN t = 1..2
    BY <1>4
  <2> QED
    BY <2>1
<1> HIDE DEF t
<1>7. Sends(t)
  <2>1. WithDocument(t, 2)
    BY <1>4, <1>6 DEF WithDocument
  <2> QED
    BY <1>4, <1>5, <1>6, <2>1 DEF Sends, IsReply
<1>8. SameStore(client, client') /\ SameViews(client, client')
  BY <1>1 DEF SameStore, SameViews
<1>9. \A i \in DOMAIN client'.requests : client'.requests[i].type = "watch"
              => client'.requests[i].resume_token <= client.resume_token
  BY <1>1 DEF ReadsInv, WatchInv, TokensOK
<1> QED
  BY <1>1, <1>7, <1>8, <1>9, SentReads

\* The document is left out only when the resume token stands for it.
LEMMA WatchReplySends ==
    ASSUME IInv, ReadsInv, NEW token \in Nat, token <= client.resume_token,
           NEW t, t = WatchReply(token)
    PROVE  Sends(t)
<1> DEFINE added == [type |-> "added"]
           current == [type |-> "current"]
           denied == [type |-> "refused"]
           doc == DocumentMessage
           snap == SnapshotMessage
<1>1. watched \in Nat /\ TypeOK /\ SinceInv
  <2>1. log \in Seq(Writes \cup {NoDocument}) /\ watched \in DOMAIN log /\ TypeOK /\ SinceInv
    BY DEF IInv, TypeOK
  <2> QED
    BY <2>1
<1>2. /\ t \in Seq(Messages) /\ \A i \in DOMAIN t : i > 1 => ~ IsReply(t[i])
  BY <1>1, WatchReplyFacts
<1>3. /\ doc.type = "document" /\ snap.type = "snapshot"
      /\ doc.version = watched /\ snap.version = watched
      /\ doc.has = ContentAt(watched)
  BY <1>1, ServerMessages DEF DocumentMessage, SnapshotMessage
<1>4. added.type = "added" /\ current.type = "current" /\ denied.type = "refused"
  OBVIOUS
<1>5. \/ refusing /\ t = <<denied>>
      \/ watched > 1 /\ watched > token /\ t = <<added>> \o <<doc>> \o <<current, snap>>
      \/ ~ (watched > 1 /\ watched > token) /\ t = <<added>> \o <<>> \o <<current, snap>>
  BY DEF WatchReply
<1>6. {added, current, doc, snap} \subseteq Messages
  BY <1>1, ServerMessages DEF Messages
<1> HIDE DEF added, current, denied, doc, snap
<1>7. CASE t = <<denied>>
  <2>1. DOMAIN t = {1} /\ t[1] = denied
    BY <1>7
  <2> QED
    BY <1>2, <1>4, <2>1 DEF Sends
<1>8. CASE watched > 1 /\ t = <<added>> \o <<doc>> \o <<current, snap>>
  <2>1. Len(t) = 4 /\ t[1] = added /\ t[2] = doc /\ t[3] = current /\ t[4] = snap
    BY ONLY <1>8, <1>6
  <2>2. DOMAIN t = 1..4 /\ t[1] = added /\ t[2] = doc /\ t[3] = current /\ t[4] = snap
    BY <1>2, <2>1
  <2>3. DOMAIN t = {1, 2, 3, 4} /\ 2 + 1 = 3 /\ 3 + 1 = 4 /\ 4 - 1 = 3 /\ 4 - 2 = 2
    BY <2>2
  <2>4. Delivered(doc)
    BY <1>1, <1>3, <1>8 DEF Delivered
  <2>5. WithDocument(t, 4)
    BY <1>3, <1>4, <2>2, <2>3 DEF WithDocument
  <2> QED
    BY <1>2, <1>3, <1>4, <2>2, <2>3, <2>4, <2>5 DEF Sends
<1>9. CASE ~ (watched > 1 /\ watched > token) /\ t = <<added>> \o <<>> \o <<current, snap>>
  <2>1. Len(t) = 3 /\ t[1] = added /\ t[2] = current /\ t[3] = snap
    BY ONLY <1>9, <1>6
  <2>2. DOMAIN t = 1..3 /\ t[1] = added /\ t[2] = current /\ t[3] = snap
    BY <1>2, <2>1
  <2>3. DOMAIN t = {1, 2, 3} /\ 2 + 1 = 3
    BY <2>2
  <2>4. ASSUME watched >= 2, client.listening
        PROVE  client.view.synced /\ watched <= client.cache.version
    <3>1. client.resume_token \in Nat /\ client.cache.version \in Nat
      BY <1>1 DEF TypeOK, Clients
    <3>2. watched <= client.resume_token /\ client.resume_token >= 2
      BY <1>1, <1>9, <2>4, <3>1
    <3>3. client.view.synced /\ client.resume_token <= client.cache.version
      BY <2>4, <3>2 DEF ReadsInv, WatchInv, TokensOK
    <3> QED
      BY <1>1, <3>1, <3>2, <3>3
  <2> QED
    BY <1>2, <1>3, <1>4, <2>2, <2>3, <2>4 DEF Sends
<1> QED
  BY <1>5, <1>7, <1>8, <1>9

LEMMA ServerHandleReads == IInv /\ ReadsInv /\ ServerHandle => ReadsInv'
<1> SUFFICES ASSUME IInv, ReadsInv, ServerHandle PROVE ReadsInv'
  OBVIOUS
<1> DEFINE request == Head(client.requests)
           requests == Tail(client.requests)
<1>1. /\ client.requests # <<>> /\ client' = [client EXCEPT !.requests = requests]
      /\ UNCHANGED <<worker, main, appVars, log, applied, watched>>
      /\ \/ /\ request.type = "watch"
            /\ fromServer' = fromServer \o WatchReply(request.resume_token)
         \/ /\ request.type = "unwatch"
            /\ fromServer' = IF target = 0 THEN fromServer ELSE Append(fromServer, [type |-> "removed"])
  BY DEF ServerHandle
<1>2. client \in Clients /\ client.requests \in Seq(Requests) /\ fromServer \in Seq(Messages)
  BY DEF IInv, TypeOK, Clients
<1>3. \A i \in DOMAIN client.requests : client.requests[i].type = "watch"
         => client.requests[i].resume_token <= client.resume_token
  BY DEF ReadsInv, WatchInv, TokensOK
<1>4. request \in Requests /\ 1 \in DOMAIN client.requests /\ request = client.requests[1]
      /\ \A i \in DOMAIN requests : i + 1 \in DOMAIN client.requests
                                    /\ requests[i] = client.requests[i + 1]
  BY <1>1, <1>2
<1> HIDE DEF request, requests
<1>5. /\ SameStore(client, client') /\ SameViews(client, client')
      /\ client'.listening = client.listening /\ client'.target = client.target
      /\ client'.update = client.update /\ client'.requests = requests
  BY <1>1, <1>2 DEF Clients, SameStore, SameViews
<1>6. \A i \in DOMAIN client'.requests : client'.requests[i].type = "watch"
         => client'.requests[i].resume_token <= client.resume_token
  BY <1>3, <1>4, <1>5
<1>7. PICK t : Sends(t) /\ fromServer' = fromServer \o t
  <2>1. CASE request.type = "watch" /\ fromServer' = fromServer \o WatchReply(request.resume_token)
    <3>1. request.resume_token \in Nat
      BY <1>4, <2>1 DEF Requests
    <3>2. request.resume_token <= client.resume_token
      BY <1>3, <1>4, <2>1
    <3> QED
      BY <2>1, <3>1, <3>2, WatchReplySends
  <2>2. CASE fromServer' = fromServer
    <3> DEFINE t == <<>>
    <3>1. fromServer' = fromServer \o t /\ t \in Seq(Messages)
      BY <1>2, <2>2, ConcatEmptySeq
    <3>2. DOMAIN t = {}
      OBVIOUS
    <3> HIDE DEF t
    <3>3. Sends(t)
      BY <3>1, <3>2 DEF Sends
    <3> QED
      BY <3>1, <3>3
  <2>3. CASE fromServer' = Append(fromServer, [type |-> "removed"])
    <3> DEFINE m == [type |-> "removed"]
               t == <<m>>
    <3>1. m \in Messages /\ m.type = "removed"
      BY DEF Messages
    <3> HIDE DEF m
    <3>2. t \in Seq(Messages) /\ DOMAIN t = {1} /\ t[1] = m
      BY <3>1
    <3>3. fromServer' = fromServer \o t
      BY <1>2, <2>3, <3>1 DEF m
    <3> HIDE DEF t
    <3>4. Sends(t)
      BY <3>1, <3>2 DEF Sends
    <3> QED
      BY <3>3, <3>4
  <2> QED
    BY <1>1, <2>1, <2>2, <2>3
<1> QED
  BY <1>1, <1>5, <1>6, <1>7, SentReads

-----------------------------------------------------------------------------
(* The watch stream.                                                        *)

LEMMA Shifted ==
    ASSUME NEW T, NEW s \in Seq(T), s # <<>>, NEW u, u = Tail(s)
    PROVE  /\ 1 \in DOMAIN s /\ Head(s) = s[1]
           /\ \A i \in DOMAIN s : i \in Nat /\ i >= 1
           /\ \A i \in DOMAIN u : i \in Nat /\ i >= 1 /\ i + 1 \in DOMAIN s /\ u[i] = s[i + 1]
           /\ \A i \in DOMAIN s : i # 1 => i - 1 \in DOMAIN u /\ u[i - 1] = s[i]
<1>1. /\ Len(s) \in Nat /\ Len(s) >= 1 /\ DOMAIN s = 1..Len(s) /\ Head(s) = s[1]
      /\ DOMAIN u = 1..(Len(s) - 1)
      /\ \A i \in 1..(Len(s) - 1) : u[i] = s[i + 1]
  OBVIOUS
<1>2. \A i \in DOMAIN u : i \in Nat /\ i >= 1 /\ i + 1 \in DOMAIN s /\ u[i] = s[i + 1]
  BY <1>1
<1>3. ASSUME NEW i \in DOMAIN s, i # 1 PROVE i - 1 \in DOMAIN u /\ u[i - 1] = s[i]
  <2>1. i - 1 \in 1..(Len(s) - 1) /\ (i - 1) + 1 = i
    BY <1>1, <1>3
  <2> QED
    BY <1>1, <2>1
<1> QED
  BY <1>1, <1>2, <1>3

\* A document that waits for its snapshot.
Pending(c) ==
    c.update # Nil =>
       /\ Delivered(c.update)
       /\ 1 \in DOMAIN fromServer' /\ fromServer'[1].type \in {"current", "snapshot"}
       /\ IsActiveTarget(c) => c.target.change # "none"

LEMMA TakenDelivery ==
    ASSUME DeliveryInv, fromServer \in Seq(Messages), fromServer # <<>>, fromServer' = Tail(fromServer),
           UNCHANGED <<log, watched>>,
           client'.resume_token <= client'.last_remote_snapshot,
           \/ client'.last_remote_snapshot = client.last_remote_snapshot
           \/ Head(fromServer).type = "snapshot" /\ client'.last_remote_snapshot = Head(fromServer).version,
           Pending(client')
    PROVE  DeliveryInv'
<1>1. /\ 1 \in DOMAIN fromServer /\ Head(fromServer) = fromServer[1]
      /\ \A i \in DOMAIN fromServer : i \in Nat /\ i >= 1
      /\ \A i \in DOMAIN fromServer' : /\ i \in Nat /\ i >= 1 /\ i + 1 \in DOMAIN fromServer
                                       /\ fromServer'[i] = fromServer[i + 1]
      /\ \A i \in DOMAIN fromServer : i # 1 => /\ i - 1 \in DOMAIN fromServer'
                                               /\ fromServer'[i - 1] = fromServer[i]
  BY Shifted
<1>2. \A doc : Delivered(doc)' <=> Delivered(doc)
  BY ContentSame DEF Delivered
<1>3. client'.last_remote_snapshot <= watched
  BY <1>1 DEF DeliveryInv
<1>4. ASSUME NEW i \in DOMAIN fromServer', fromServer'[i].type = "snapshot"
      PROVE  /\ fromServer'[i].version \in 1..watched
             /\ client'.last_remote_snapshot <= fromServer'[i].version
             /\ \A j \in DOMAIN fromServer' : i < j /\ fromServer'[j].type = "snapshot"
                   => fromServer'[i].version <= fromServer'[j].version
  <2>1. i + 1 \in DOMAIN fromServer /\ fromServer'[i] = fromServer[i + 1] /\ 1 < i + 1 /\ i \in Nat
    BY <1>1
  <2>2. /\ fromServer[i + 1].version \in 1..watched
        /\ client.last_remote_snapshot <= fromServer[i + 1].version
        /\ \A j \in DOMAIN fromServer : i + 1 < j /\ fromServer[j].type = "snapshot"
              => fromServer[i + 1].version <= fromServer[j].version
    BY <1>4, <2>1 DEF DeliveryInv
  <2>3. Head(fromServer).type = "snapshot" => Head(fromServer).version <= fromServer[i + 1].version
    BY <1>1, <1>4, <2>1 DEF DeliveryInv
  <2>4. \A j \in DOMAIN fromServer' : i < j => j + 1 \in DOMAIN fromServer /\ i + 1 < j + 1
                                               /\ fromServer'[j] = fromServer[j + 1]
    BY <1>1, <2>1
  <2> QED
    BY <2>1, <2>2, <2>3, <2>4
<1>5. ASSUME NEW i \in DOMAIN fromServer'
      PROVE  /\ fromServer'[i].type = "current" =>
                   i + 1 \in DOMAIN fromServer' /\ fromServer'[i + 1].type = "snapshot"
             /\ fromServer'[i].type = "document" =>
                   /\ Delivered(fromServer'[i])
                   /\ i + 1 \in DOMAIN fromServer'
                   /\ fromServer'[i + 1].type \in {"current", "snapshot"}
  <2>1. i + 1 \in DOMAIN fromServer /\ fromServer'[i] = fromServer[i + 1] /\ i \in Nat /\ i >= 1
    BY <1>1
  <2>2. (i + 1) + 1 \in DOMAIN fromServer =>
           i + 1 \in DOMAIN fromServer' /\ fromServer'[i + 1] = fromServer[(i + 1) + 1]
    <3>1. (i + 1) + 1 # 1 /\ ((i + 1) + 1) - 1 = i + 1
      BY <2>1
    <3> QED
      BY <1>1, <3>1
  <2> QED
    BY <2>1, <2>2 DEF DeliveryInv
<1> QED
  BY <1>2, <1>3, <1>4, <1>5 DEF DeliveryInv, Pending

\* A message that will find the target active is one that would have.
LEMMA StillLive ==
    ASSUME IInv, fromServer # <<>>, fromServer' = Tail(fromServer),
           client'.listening => client.listening, client'.target.outstanding_responses \in Nat,
           client'.target.outstanding_responses = client.target.outstanding_responses
               - (IF IsReply(Head(fromServer)) THEN 1 ELSE 0),
           NEW i \in DOMAIN fromServer', Live(i)'
    PROVE  /\ Live(i + 1) /\ i \in Nat /\ i >= 1
           /\ i + 1 \in DOMAIN fromServer /\ fromServer'[i] = fromServer[i + 1]
<1>1. fromServer \in Seq(Messages) /\ fromServer' \in Seq(Messages)
  <2>1. fromServer \in Seq(Messages)
    BY DEF IInv, TypeOK
  <2> QED
    BY <2>1, HeadTailProperties
<1>2. /\ i \in Nat /\ i >= 1 /\ i + 1 \in DOMAIN fromServer /\ fromServer'[i] = fromServer[i + 1]
      /\ \A j \in DOMAIN fromServer : j \in Nat
      /\ \A j \in DOMAIN fromServer : j # 1 => /\ j - 1 \in DOMAIN fromServer'
                                               /\ fromServer'[j - 1] = fromServer[j]
  BY <1>1, Shifted
<1> DEFINE k == IF IsReply(Head(fromServer)) THEN 1 ELSE 0
           m == Cardinality(Replies(fromServer))
           n == Cardinality(Replies(fromServer'))
           o == client.target.outstanding_responses
<1>3. n + k <= m /\ m \in Nat /\ n \in Nat /\ k \in Nat /\ o \in Nat
  BY <1>1, RepliesOfTail, RepliesFinite, RepliesDue
<1>4. client.listening /\ o - k <= n /\ \A j \in Replies(fromServer') : j < i
  BY DEF Live
<1>5. o <= m
  <2> HIDE DEF k, m, n, o
  <2> QED
    BY <1>3, <1>4
<1>6. ASSUME NEW j \in Replies(fromServer) PROVE j < i + 1
  <2>1. j \in DOMAIN fromServer /\ j \in Nat
    BY <1>2 DEF Replies
  <2>2. CASE j = 1
    BY <1>2, <2>2
  <2>3. CASE j # 1
    <3>1. j - 1 \in Replies(fromServer')
      BY <1>2, <1>6, <2>1, <2>3 DEF Replies
    <3> QED
      BY <1>2, <1>4, <2>1, <3>1
  <2> QED
    BY <2>2, <2>3
<1> QED
  BY <1>2, <1>4, <1>5, <1>6 DEF Live

LEMMA TakenWatch ==
    ASSUME IInv, ReadsInv, fromServer # <<>>, fromServer' = Tail(fromServer), TokensOK(client'),
           client'.listening => client.listening, client'.target.outstanding_responses \in Nat,
           client'.target.outstanding_responses = client.target.outstanding_responses
               - (IF IsReply(Head(fromServer)) THEN 1 ELSE 0),
           client'.cache.version \in Nat, client.cache.version <= client'.cache.version,
           client'.listening => /\ client'.view.since = client.view.since
                                /\ client.view.synced => client'.view.synced,
           Head(fromServer).type = "current" => client'.update = client.update,
           Head(fromServer).type = "document" /\ IsActiveTarget(client) =>
              client'.update # Nil /\ client'.update.version = Head(fromServer).version
    PROVE  WatchInv'
<1>1. fromServer \in Seq(Messages)
  BY DEF IInv, TypeOK
<1>2. /\ 1 \in DOMAIN fromServer /\ Head(fromServer) = fromServer[1]
      /\ \A i \in DOMAIN fromServer : i \in Nat /\ i >= 1
      /\ \A i \in DOMAIN fromServer' : /\ i \in Nat /\ i >= 1 /\ i + 1 \in DOMAIN fromServer
                                       /\ fromServer'[i] = fromServer[i + 1]
      /\ \A i \in DOMAIN fromServer : i # 1 => /\ i - 1 \in DOMAIN fromServer'
                                               /\ fromServer'[i - 1] = fromServer[i]
  BY <1>1, Shifted
<1>3. WatchInv
  BY DEF ReadsInv
<1>4. ASSUME NEW i \in DOMAIN fromServer', fromServer'[i].type = "snapshot", Live(i)'
      PROVE  /\ client'.view.since <= fromServer'[i].version
             /\ fromServer'[i].version >= 2 =>
                   \/ client'.view.synced /\ fromServer'[i].version <= client'.cache.version
                   \/ Precedes(i, fromServer[i].version)'
  <2>1. /\ Live(i + 1) /\ i \in Nat /\ i >= 1
        /\ i + 1 \in DOMAIN fromServer /\ fromServer'[i] = fromServer[i + 1]
    BY <1>4, StillLive
  <2> DEFINE v == fromServer[i + 1].version
  <2>2. client'.listening /\ client.listening
    BY <1>4 DEF Live
  <2>3. v \in Nat
    BY <1>4, <2>1 DEF ReadsInv, DeliveryInv
  <2>4. /\ client.view.since <= v
        /\ v >= 2 => \/ client.view.synced /\ v <= client.cache.version
                     \/ Precedes(i + 1, v)
    BY <1>3, <1>4, <2>1 DEF WatchInv
  \* A document before the second or the third message finds the target active.
  <2>5. ASSUME fromServer[1].type = "document", \A j \in 2..i : ~ IsReply(fromServer[j])
        PROVE  IsActiveTarget(client)
    <3>1. ASSUME NEW j \in Replies(fromServer) PROVE FALSE
      <4>1. j \in DOMAIN fromServer /\ IsReply(fromServer[j]) /\ j < i + 1
        BY <2>1, <3>1 DEF Replies, Live
      <4>2. j # 1 /\ j \in Nat /\ j >= 1
        BY <1>2, <2>5, <4>1 DEF IsReply
      <4>3. j \in 2..i
        BY <2>1, <4>1, <4>2
      <4> QED
        BY <2>5, <4>1, <4>3
    <3>2. Replies(fromServer) = {}
      BY <3>1
    <3>3. Cardinality(Replies(fromServer)) = 0
      BY <3>2, FS_EmptySet
    <3>4. client.target.outstanding_responses <= Cardinality(Replies(fromServer))
      BY <2>1 DEF Live
    <3>5. client.target.outstanding_responses = 0
      BY <3>3, <3>4, RepliesDue
    <3> QED
      BY <2>2, <3>5 DEF IsActiveTarget
  <2>6. \A k : k \in DOMAIN fromServer /\ k # 1 /\ DocumentAt(k, v) =>
           k - 1 \in DOMAIN fromServer' /\ fromServer'[k - 1].type = "document"
           /\ fromServer'[k - 1].version = v
    BY <1>2 DEF DocumentAt
  <2>7. \A k : DocumentAt(k, v) => (k \in DOMAIN fromServer /\ fromServer[k].type = "document")
                                   \/ (k = 0 /\ client.update # Nil /\ client.update.version = v)
    BY DEF DocumentAt
  <2>8. DocumentAt(1, v) => fromServer[1].type = "document" /\ fromServer[1].version = v
    BY DEF DocumentAt
  <2>9. fromServer'[i].version = v
    BY <2>1
  <2> HIDE DEF v
  <2>10. ASSUME Precedes(i + 1, v)
         PROVE  \/ i - 1 \in DOMAIN fromServer' /\ fromServer'[i - 1].type = "document"
                   /\ fromServer'[i - 1].version = v
                \/ i - 1 = 0 /\ client'.update # Nil /\ client'.update.version = v
                \/ /\ i - 1 \in DOMAIN fromServer' /\ fromServer'[i - 1].type = "current"
                   /\ \/ i - 2 \in DOMAIN fromServer' /\ fromServer'[i - 2].type = "document"
                         /\ fromServer'[i - 2].version = v
                      \/ i - 2 = 0 /\ client'.update # Nil /\ client'.update.version = v
    <3>1. (i + 1) - 1 = i /\ (i + 1) - 2 = i - 1
      BY <2>1
    <3>2. \/ DocumentAt(i, v)
          \/ i \in DOMAIN fromServer /\ fromServer[i].type = "current" /\ DocumentAt(i - 1, v)
      BY <2>10, <3>1 DEF Precedes
    <3>3. CASE DocumentAt(i, v) /\ i # 1
      <4>1. i \in DOMAIN fromServer
        BY <2>1, <2>7, <3>3
      <4> QED
        BY <2>6, <3>3, <4>1
    <3>4. CASE DocumentAt(i, v) /\ i = 1
      <4>1. 2..i = {} /\ i - 1 = 0
        BY <3>4
      <4>2. IsActiveTarget(client)
        BY <2>5, <2>8, <3>4, <4>1
      <4> QED
        BY <1>2, <2>8, <3>4, <4>1, <4>2
    <3>5. CASE i \in DOMAIN fromServer /\ fromServer[i].type = "current" /\ DocumentAt(i - 1, v) /\ i = 1
      <4>1. i - 1 = 0 /\ 0 \notin DOMAIN fromServer
        BY <1>2, <3>5
      <4>2. client.update # Nil /\ client.update.version = v
        BY <2>7, <3>5, <4>1
      <4> QED
        BY <1>2, <3>5, <4>1, <4>2
    <3>6. CASE i \in DOMAIN fromServer /\ fromServer[i].type = "current" /\ DocumentAt(i - 1, v) /\ i = 2
      <4>1. i - 1 = 1 /\ i - 2 = 0 /\ 2..i = {2}
        BY <3>6
      <4>2. fromServer[1].type = "document" /\ fromServer[1].version = v
        BY <2>8, <3>6, <4>1
      <4>3. IsActiveTarget(client)
        BY <2>5, <3>6, <4>1, <4>2 DEF IsReply
      <4>4. client'.update # Nil /\ client'.update.version = v
        BY <1>2, <4>2, <4>3
      <4>5. i - 1 \in DOMAIN fromServer' /\ fromServer'[i - 1].type = "current"
        BY <1>2, <3>6
      <4> QED
        BY <4>1, <4>4, <4>5
    <3>7. CASE /\ i \in DOMAIN fromServer /\ fromServer[i].type = "current" /\ DocumentAt(i - 1, v)
               /\ i # 1 /\ i # 2
      <4>1. i - 1 \in DOMAIN fromServer' /\ fromServer'[i - 1].type = "current"
        BY <1>2, <3>7
      <4>2. i - 1 # 0 /\ i - 1 # 1 /\ (i - 1) - 1 = i - 2
        BY <2>1, <3>7
      <4>3. i - 1 \in DOMAIN fromServer
        BY <2>7, <3>7, <4>2
      <4> QED
        BY <2>6, <3>7, <4>1, <4>2, <4>3
    <3> QED
      BY <3>2, <3>3, <3>4, <3>5, <3>6, <3>7
  <2>11. Precedes(i + 1, v) => Precedes(i, fromServer[i].version)'
    BY <2>9, <2>10 DEF Precedes, DocumentAt
  <2>12. client.cache.version \in Nat
    BY DEF IInv, TypeOK, Clients
  <2> QED
    BY <2>2, <2>3, <2>4, <2>9, <2>11, <2>12
<1> QED
  BY <1>4 DEF WatchInv

\* A message that changes the target's state only.
LEMMA TargetReads ==
    ASSUME IInv, ReadsInv, IInv', fromServer # <<>>, fromServer' = Tail(fromServer),
           UNCHANGED <<worker, appVars, log, applied, watched>>,
           NEW c, c = UpdateState(client, "Online"), NEW d, OnlyTarget(c, d), Becomes(d),
           d.target.outstanding_responses =
              c.target.outstanding_responses - (IF IsReply(Head(fromServer)) THEN 1 ELSE 0),
           Pending(d),
           Head(fromServer).type = "current" => d.update = client.update,
           Head(fromServer).type = "document" /\ IsActiveTarget(client) =>
              d.update # Nil /\ d.update.version = Head(fromServer).version
    PROVE  ReadsInv'
<1>1. Sound(client, client.listeners, Tellable(Known, Known, refused)) /\ TrackerOK(client)
  BY SoundReads
<1>2. /\ Told(client.listeners, Tellable(Known, Known, refused))
      /\ Tracks(client, client')
      /\ client'.listening = client.listening /\ client'.requests = client.requests
      /\ client'.target = d.target /\ client'.update = d.update
  BY <1>1, TargetEffect
<1>3. c.target = client.target /\ d.listening = client.listening
  BY <1>1, OnlineFacts DEF SameRemote, OnlyTarget
<1>4. CacheInv' /\ KnownInv' /\ FreshInv'
  BY <1>2, TracksKnown
<1>5. /\ SameTokens(client, client') /\ TokensOK(client') /\ client'.cache = client.cache
      /\ client.listening => /\ client'.view.since = client.view.since
                             /\ client'.view.synced = client.view.synced
  BY <1>2, TracksTokens DEF ReadsInv
<1>6. client.cache.version \in Nat /\ client'.target.outstanding_responses \in Nat
      /\ client.cache.version <= client.cache.version
  <2>1. client.cache.version \in Nat
    BY DEF IInv, TypeOK, Clients
  <2>2. client'.target \in TargetStates
    BY DEF IInv, TypeOK, Clients
  <2> QED
    BY <2>1, <2>2 DEF TargetStates
<1>7. Pending(client')
  BY <1>2, <1>3 DEF Pending, IsActiveTarget
<1>8. fromServer \in Seq(Messages) /\ DeliveryInv
  BY DEF IInv, TypeOK, ReadsInv
<1>9. /\ client'.last_remote_snapshot = client.last_remote_snapshot
      /\ client'.resume_token <= client'.last_remote_snapshot
  BY <1>5, <1>8 DEF SameTokens, DeliveryInv
<1>10. DeliveryInv'
  BY <1>7, <1>8, <1>9, TakenDelivery
<1>11. WatchInv'
  BY <1>2, <1>3, <1>5, <1>6, TakenWatch
<1> QED
  BY <1>4, <1>10, <1>11 DEF ReadsInv

\* What a snapshot leaves in the cache: nothing is taken back, and an active
\* target's document of that version is there and listed.
LEMMA SnapshotStored ==
    ASSUME IInv, ReadsInv, fromServer # <<>>, Head(fromServer).type = "snapshot",
           NEW v, v = Head(fromServer).version,
           NEW c \in Clients, SameRemote(client, c), c.cache = client.cache,
           client.listening => c.view.synced = client.view.synced,
           NEW cache, cache = PopulateDocumentChanges(c.cache, CreateRemoteEvent(c, v).update)
    PROVE  /\ v \in Nat /\ v <= watched /\ client.last_remote_snapshot <= v
           /\ CacheOK(cache, client.queue, applied)
           /\ Settled(client.cache) \subseteq Settled(cache) /\ client.cache.version <= cache.version
           /\ cache = client.cache \/ ~ cache.committed
           /\ IsActiveTarget(client) =>
                 /\ client.view.since <= v
                 /\ v >= 2 => /\ v <= cache.version
                              /\ client.view.synced \/ client.target.change = "added"
<1>1. /\ fromServer \in Seq(Messages) /\ client \in Clients /\ WatchInv /\ DeliveryInv /\ CacheInv
      /\ watched \in DOMAIN log /\ log \in Seq(Writes \cup {NoDocument})
  BY DEF IInv, TypeOK, ReadsInv
<1>2. /\ 1 \in DOMAIN fromServer /\ Head(fromServer) = fromServer[1]
      /\ \A i \in DOMAIN fromServer : i >= 1 /\ i \in Nat
  <2>1. Tail(fromServer) = Tail(fromServer)
    OBVIOUS
  <2> QED
    BY <1>1, <2>1, Shifted
<1>3. watched \in Nat /\ Len(log) \in Nat /\ watched <= Len(log)
  BY <1>1
<1>4. v \in 1..watched /\ client.last_remote_snapshot <= v
  BY <1>1, <1>2 DEF DeliveryInv
<1>5. v \in Nat /\ v <= watched /\ v <= Len(log)
  BY <1>3, <1>4
<1>6. c.target = client.target /\ c.update = client.update /\ c.listening = client.listening
  BY DEF SameRemote
<1>7. client.cache.version \in Nat /\ client.cache.version <= client.cache.version
  <2>1. client.cache.version \in Nat
    BY <1>1 DEF Clients
  <2> QED
    BY <2>1
<1>8. ASSUME IsActiveTarget(client)
      PROVE  /\ client.view.since <= v
             /\ v >= 2 => \/ client.view.synced /\ v <= client.cache.version
                          \/ client.update # Nil /\ client.update.version = v
  <2>1. client.listening /\ client.target.outstanding_responses = 0
    BY <1>8 DEF IsActiveTarget
  <2>2. Cardinality(Replies(fromServer)) = 0
    BY <2>1, RepliesDue
  <2>3. Replies(fromServer) = {}
    BY <1>1, <2>2, RepliesFinite, FS_EmptySet
  <2>4. Live(1)
    BY <2>1, <2>2, <2>3 DEF Live
  <2>5. /\ client.view.since <= v
        /\ v >= 2 => (client.view.synced /\ v <= client.cache.version) \/ Precedes(1, v)
    BY <1>1, <1>2, <2>4 DEF WatchInv
  <2>6. ~ (0 \in DOMAIN fromServer)
    BY <1>2
  <2>7. Precedes(1, v) => client.update # Nil /\ client.update.version = v
    <3>1. 1 - 1 = 0
      OBVIOUS
    <3> QED
      BY <2>6, <3>1 DEF Precedes, DocumentAt
  <2> QED
    BY <2>5, <2>7
<1> DEFINE update == CreateRemoteEvent(c, v).update
           missing == IsActiveTarget(c) /\ c.target.current /\ c.update = Nil /\ ~ c.view.synced
<1>9. update = IF missing THEN [version |-> v, has |-> {}] ELSE c.update
  BY DEF CreateRemoteEvent
<1>10. cache = PopulateDocumentChanges(client.cache, update)
  OBVIOUS
<1>11. missing => v < 2 /\ IsActiveTarget(client) /\ ~ client.view.synced /\ client.update = Nil
  BY <1>5, <1>6, <1>8 DEF IsActiveTarget
<1> HIDE DEF update, missing
<1>12. CASE update = Nil
  <2>1. cache = client.cache
    BY <1>10, <1>12 DEF PopulateDocumentChanges
  <2>2. client.update = Nil
    BY <1>6, <1>9, <1>11, <1>12
  <2> QED
    BY <1>1, <1>4, <1>5, <1>7, <1>8, <2>1, <2>2 DEF CacheInv
<1>13. CASE update # Nil
  <2>1. update \in Documents /\ update.has = ContentAt(update.version) /\ update.version <= Len(log)
    <3>1. CASE missing
      <4>1. update = [version |-> v, has |-> {}] /\ 2..v = {}
        BY <1>5, <1>9, <1>11, <3>1
      <4> QED
        BY <1>5, <4>1 DEF Documents, ContentAt
    <3>2. CASE ~ missing
      <4>1. update = client.update /\ update \in Documents
        BY <1>1, <1>6, <1>9, <1>13, <3>2 DEF Clients
      <4>2. Delivered(update)
        BY <1>1, <1>13, <4>1 DEF DeliveryInv
      <4>3. update.version \in Nat /\ update.version <= watched /\ update.has = ContentAt(update.version)
        BY <1>3, <4>2 DEF Delivered
      <4> QED
        BY <1>3, <4>1, <4>3
    <3> QED
      BY <3>1, <3>2
  <2>2. /\ Settled(client.cache) \subseteq Settled(cache)
        /\ client.cache.version <= cache.version /\ update.version <= cache.version
        /\ cache = client.cache \/ ~ cache.committed
        /\ CacheOK(cache, client.queue, applied)
    BY <1>1, <1>10, <2>1, PopulateFacts
  <2>3. cache.version \in Nat
    <3>1. update.version \in Nat
      BY <2>1 DEF Documents
    <3> QED
      BY <1>7, <1>10, <3>1 DEF PopulateDocumentChanges
  <2>4. ASSUME IsActiveTarget(client), v >= 2
        PROVE  v <= cache.version /\ (client.view.synced \/ client.target.change = "added")
    <3>1. CASE client.view.synced /\ v <= client.cache.version
      BY <1>5, <1>7, <2>2, <2>3, <3>1
    <3>2. CASE client.update # Nil /\ client.update.version = v
      <4>1. ~ missing
        BY <1>11, <3>2
      <4>2. v <= cache.version
        BY <1>6, <1>9, <2>2, <3>2, <4>1
      <4>3. client.target.change # "none"
        BY <1>1, <2>4, <3>2 DEF DeliveryInv
      <4>4. client.target.change \in {"none", "added", "modified"}
        BY <1>1 DEF Clients, TargetStates
      <4>5. client.target.change = "modified" => client.view.synced
        BY <2>4 DEF IInv, AssertionsHold, IsActiveTarget
      <4> QED
        BY <4>2, <4>3, <4>4, <4>5
    <3> QED
      BY <1>8, <2>4, <3>1, <3>2
  <2> QED
    BY <1>4, <1>5, <1>8, <2>2, <2>4
<1> QED
  BY <1>12, <1>13

LEMMA SnapshotReads ==
    ASSUME IInv, ReadsInv, IInv', fromServer # <<>>, fromServer' = Tail(fromServer),
           UNCHANGED <<worker, appVars, log, applied, watched>>,
           Head(fromServer).type = "snapshot", NEW v, v = Head(fromServer).version,
           NEW c, c = UpdateState(client, "Online"), Becomes(RaiseWatchSnapshot(c, v))
    PROVE  ReadsInv'
<1> DEFINE L == client.listeners
           e == Stored(c, v)
           change == CreateRemoteEvent(c, v).change
           doc == IF e.cache = c.cache THEN Nil ELSE LocalView(e)
           r == refused
           B == KnownTo(e) \cup r
           S == Tellable(Known, B, r)
<1>1. Sound(client, L, Due) /\ TrackerOK(client) /\ L \in SUBSET Gets
  BY StartsSound
<1>2. /\ Sound(c, L, Due) /\ Tracks(client, c) /\ SameRemote(client, c)
      /\ IsActiveTarget(c) <=> IsActiveTarget(client)
  BY <1>1, OnlineFacts
<1>3. c \in Clients /\ client \in Clients
  BY <1>2 DEF Sound, Tells, IInv, TypeOK
<1>4. /\ SameStore(client, c) /\ c.cache = client.cache /\ c.queue = client.queue /\ SameTokens(client, c)
      /\ c.listeners = L
      /\ c.view = Nil <=> client.view = Nil
      /\ client.view # Nil => /\ c.view.has = client.view.has /\ c.view.since = client.view.since
                              /\ c.view.synced = client.view.synced
                              /\ c.view.current => client.view.current
  BY <1>2 DEF Tracks, Keeps, SameStore, SameTokens
<1>5. client.listening <=> client.view # Nil
  BY DEF IInv, AssertionsHold
<1>6. e = Stored(c, v) /\ change = CreateRemoteEvent(c, v).change /\ B = KnownTo(e) \cup r
      /\ doc = (IF e.cache = c.cache THEN Nil ELSE LocalView(e))
      /\ S = Tellable(Known, B, r) /\ r = refused
  OBVIOUS
<1>7. v \in Nat
  <2>1. Head(fromServer) \in Messages
    BY HeadTailProperties DEF IInv, TypeOK
  <2> QED
    BY <2>1 DEF Messages
<1> HIDE DEF e, change, doc, B, L, r
<1>8. /\ e \in Clients /\ SameViews(c, e)
      /\ e.stream = c.stream /\ e.listening = c.listening /\ e.requests = c.requests
      /\ e.queue = c.queue /\ e.last_remote_snapshot = v /\ e.update = Nil
      /\ e.cache = PopulateDocumentChanges(c.cache, CreateRemoteEvent(c, v).update)
      /\ e.target.outstanding_responses = c.target.outstanding_responses
      /\ IsActiveTarget(c) =>
            /\ change = [current |-> c.target.current, change |-> c.target.change]
            /\ change # Nil
            /\ e.resume_token = v
            /\ e.remote_keys = (c.remote_keys \/ c.target.change = "added")
      /\ ~ IsActiveTarget(c) =>
            /\ change = Nil
            /\ e.resume_token = c.resume_token /\ e.remote_keys = c.remote_keys
  BY <1>3, <1>6, <1>7, StoredFacts
<1>9. /\ v \in Nat /\ v <= watched /\ client.last_remote_snapshot <= v
      /\ CacheOK(e.cache, client.queue, applied)
      /\ Settled(client.cache) \subseteq Settled(e.cache) /\ client.cache.version <= e.cache.version
      /\ e.cache = client.cache \/ ~ e.cache.committed
      /\ IsActiveTarget(client) =>
            /\ client.view.since <= v
            /\ v >= 2 => /\ v <= e.cache.version
                         /\ client.view.synced \/ client.target.change = "added"
  <2>1. client.listening => c.view.synced = client.view.synced
    BY <1>4, <1>5
  <2>2. /\ fromServer # <<>> /\ Head(fromServer).type = "snapshot" /\ v = Head(fromServer).version
        /\ c \in Clients /\ SameRemote(client, c) /\ c.cache = client.cache
        /\ e.cache = PopulateDocumentChanges(c.cache, CreateRemoteEvent(c, v).update)
    BY <1>2, <1>3, <1>4, <1>8
  <2> QED
    BY ONLY IInv, ReadsInv, <2>1, <2>2, SnapshotStored
<1>10. /\ Known \subseteq B /\ B = KnownTo(e) \cup refused /\ r = refused /\ e.queue = client.queue
       /\ e.cache = client.cache => B = Known
       /\ LocalView(e).has \subseteq B /\ Shows(LocalView(e).has, B, r)
  <2>1. e.queue = client.queue /\ B = KnownTo(e) \cup refused /\ r = refused
    BY <1>4, <1>6, <1>8
  <2>2. refused \in SUBSET OwnWrites
    BY DEF IInv, TypeOK
  <2>3. /\ LocalView(e).has \subseteq KnownTo(e)
        /\ Shows(LocalView(e).has, KnownTo(e) \cup refused, refused)
    BY <1>8, <2>2, ShowsLocal
  <2>4. KnownTo(client) \subseteq KnownTo(e) /\ (e.cache = client.cache => KnownTo(e) = KnownTo(client))
    BY <1>9, <2>1 DEF KnownTo
  <2> QED
    BY <2>1, <2>3, <2>4 DEF Known
<1>11. Sound(client, L, S) /\ L \subseteq L
  BY <1>1, <1>6, <1>10, TellableSound DEF L
<1>12. S \subseteq Snapshots /\ S = Tellable(Known, B, r)
  BY DEF Tellable
<1> HIDE DEF S
<1>13. ~ (v < client.last_remote_snapshot)
  BY <1>3, <1>9 DEF Clients
<1>14. /\ Tells(e, L, S) /\ e.view = c.view
       /\ doc \in LocalDocuments \cup {Nil} /\ change \in TargetChanges \cup {Nil}
       /\ Becomes(EmitNewSnapshots(e, doc, change))
  BY <1>1, <1>6, <1>7, <1>11, <1>13, SnapshotEffect
<1>15. /\ SameStore(e, client') /\ SameRemote(e, client')
       /\ client'.listeners = e.listeners
       /\ e.view = Nil => client'.view = Nil
       /\ e.view # Nil =>
             /\ client'.view # Nil /\ client'.view.since = e.view.since
             /\ doc = Nil => client'.view.has = e.view.has
             /\ doc # Nil /\ (doc.has = e.view.has \/ doc.local \/ ~ doc.committed \/ ~ e.view.local)
                   => client'.view.has = doc.has
             /\ client'.view.synced <=> e.view.synced \/ (change # Nil /\ change.change = "added")
             /\ client'.view.current <=> IF change = Nil THEN e.view.current ELSE change.current
       /\ (e.view # Nil => \A s \in Snapshots :
              /\ s.has = client'.view.has /\ s.since = e.view.since
              /\ s.from_cache \/ client'.view.current
              /\ s.settled <=> e.queue = <<>> /\ ~ e.cache.committed
              => s \in S)
          => Told(L, S) /\ client'.snapshot \in S \cup {Nil}
  BY <1>1, <1>12, <1>14, EmitEffect
<1>16. client.view # Nil =>
          /\ client.view.since <= watched
          /\ client.view.has \subseteq Known /\ Shows(client.view.has, Known, refused)
          /\ ~ client.cache.committed => client.view.has = LocalView(client).has
  BY DEF IInv, SinceInv, ReadsInv, KnownInv, ViewShows
<1>17. client.view # Nil =>
          /\ client'.view # Nil /\ client'.view.since = client.view.since
          /\ client'.view.has \subseteq B /\ Shows(client'.view.has, B, r)
          /\ ~ e.cache.committed => client'.view.has = LocalView(e).has
  <2> SUFFICES ASSUME client.view # Nil
               PROVE  /\ client'.view # Nil /\ client'.view.since = client.view.since
                      /\ client'.view.has \subseteq B /\ Shows(client'.view.has, B, r)
                      /\ ~ e.cache.committed => client'.view.has = LocalView(e).has
    OBVIOUS
  <2>1. e.view # Nil /\ e.view.since = client.view.since /\ e.view.has = client.view.has
    BY <1>4, <1>14
  <2>2. CASE e.cache = c.cache
    <3>1. doc = Nil /\ B = Known /\ e.cache = client.cache
      BY <1>4, <1>6, <1>10, <2>2
    <3>2. LocalView(e).has = LocalView(client).has
      BY <1>10, <3>1 DEF LocalView
    <3> QED
      BY <1>10, <1>15, <1>16, <2>1, <3>1, <3>2
  <2>3. CASE e.cache # c.cache
    <3>1. doc = LocalView(e) /\ doc # Nil
      BY <1>6, <1>8, <2>3, LocalViewType
    <3>2. ~ doc.committed
      BY <1>4, <1>9, <2>3, <3>1 DEF LocalView
    <3>3. client'.view.has = LocalView(e).has
      BY <1>15, <2>1, <3>1, <3>2
    <3> QED
      BY <1>10, <1>15, <2>1, <3>3
  <2> QED
    BY <2>2, <2>3
<1>18. /\ e.cache.version \in Nat /\ client.cache.version \in Nat
       /\ client.view # Nil => client.view.since \in Nat
  <2>1. e.cache.version \in Nat /\ client.cache.version \in Nat
    BY <1>3, <1>8 DEF Clients
  <2>2. client.view \in Views \cup {Nil}
    BY <1>3 DEF Clients
  <2> QED
    BY <2>1, <2>2 DEF Views
<1>19. client.view # Nil /\ client'.view.current =>
          client.view.since <= 1 \/ client.view.since <= e.cache.version
  <2> SUFFICES ASSUME client.view # Nil, client'.view.current
               PROVE  client.view.since <= 1 \/ client.view.since <= e.cache.version
    OBVIOUS
  <2>1. CASE IsActiveTarget(client)
    <3>1. client.view.since <= v /\ (v >= 2 => v <= e.cache.version)
      BY <1>9, <2>1
    <3> QED
      BY <1>7, <1>18, <3>1
  <2>2. CASE ~ IsActiveTarget(client)
    <3>1. client.view.current
      BY <1>2, <1>4, <1>8, <1>14, <1>15, <2>2
    <3>2. client.view.since <= 1 \/ client.view.since <= client.cache.version
      BY <3>1 DEF ReadsInv, FreshInv
    <3> QED
      BY <1>9, <1>18, <3>2
  <2> QED
    BY <2>1, <2>2
<1>20. Told(L, S)
  <2>1. ASSUME e.view # Nil, NEW s \in Snapshots,
               s.has = client'.view.has, s.since = e.view.since,
               s.from_cache \/ client'.view.current,
               s.settled <=> e.queue = <<>> /\ ~ e.cache.committed
        PROVE  s \in S
    <3>0. client.view # Nil /\ e.view.since = client.view.since
      BY <1>4, <1>14, <2>1
    <3>1. /\ s.since <= watched /\ s.since \in Nat
          /\ ~ s.from_cache => s.since <= 1 \/ s.since <= e.cache.version
          /\ s.has \subseteq B /\ Shows(s.has, B, r)
          /\ ~ e.cache.committed => s.has = LocalView(e).has
      BY <1>16, <1>17, <1>18, <1>19, <2>1, <3>0
    <3>2. CacheOK(e.cache, e.queue, applied)
      BY <1>4, <1>8, <1>9
    <3>3. Fresh(s)
      BY <1>18, <2>1, <3>1, <3>2, FreshNow
    <3>4. Shows(s.has, Known, r)
      BY <1>10, <3>1, ShowsLess
    <3> QED
      BY <3>1, <3>3, <3>4 DEF S, Tellable
  <2> QED
    BY <1>15, <2>1
<1>21. /\ client'.cache = e.cache /\ client'.queue = client.queue
       /\ client'.last_remote_snapshot = v
       /\ client'.resume_token = e.resume_token /\ client'.remote_keys = e.remote_keys
       /\ client'.listening = client.listening /\ client'.requests = client.requests
       /\ client'.target.outstanding_responses = client.target.outstanding_responses
       /\ client'.update = Nil /\ client'.listeners = L
  BY <1>2, <1>4, <1>8, <1>15 DEF SameStore, SameRemote, SameViews
<1>22. CacheInv' /\ Known' = B /\ refused' = refused
  <2>1. Settled(client.cache)' = Settled(e.cache)
    BY <1>21, SettledSame DEF Settled, ContentAt
  <2>2. CacheInv'
    BY <1>9, <1>21, ContentSame DEF CacheInv, CacheOK
  <2>3. refused' = refused
    BY DEF appVars
  <2> QED
    BY <1>10, <1>21, <2>1, <2>2, <2>3 DEF Known, KnownTo, Elements
<1>23. \A g \in L : must[g] \subseteq Known
  BY DEF ReadsInv, KnownInv, L
<1>24. client.view = Nil => client'.view = Nil
  BY <1>4, <1>14, <1>15
<1>25. /\ client'.listeners \subseteq L
       /\ ViewShows(client', B, r)
       /\ client'.view # Nil /\ client'.view.current =>
             client'.view.since <= 1 \/ client'.view.since <= client'.cache.version
  <2>1. LocalView(client').has = LocalView(e).has
    BY <1>10, <1>21 DEF LocalView
  <2>2. ViewShows(client', B, r)
    BY <1>17, <1>21, <1>24, <2>1 DEF ViewShows
  <2> QED
    BY <1>17, <1>19, <1>21, <1>24, <2>2
<1>26. KnownInv' /\ FreshInv'
  <2>1. /\ UNCHANGED <<Reports, log, watched>> /\ UNCHANGED worker
        /\ B = Known' /\ Known \subseteq B /\ r = refused' /\ refused \subseteq r
        /\ Told(L, Tellable(Known, B, r))
    BY <1>10, <1>12, <1>20, <1>22 DEF appVars, Reports
  <2> QED
    BY <1>1, <1>23, <1>25, <2>1, ToldKnown
<1>27. DeliveryInv /\ TokensOK(client) /\ fromServer \in Seq(Messages)
       /\ client.resume_token \in Nat /\ client.last_remote_snapshot \in Nat
  BY <1>3 DEF ReadsInv, WatchInv, IInv, TypeOK, Clients
<1>28. client.resume_token <= v /\ client'.resume_token \in Nat
       /\ client.resume_token <= client'.resume_token /\ client'.resume_token <= v
  <2>1. client.resume_token <= client.last_remote_snapshot
    BY <1>27 DEF DeliveryInv
  <2>2. client.resume_token <= v
    BY <1>7, <1>9, <1>27, <2>1
  <2>3. client'.resume_token \in {v, client.resume_token}
    BY <1>4, <1>8, <1>21 DEF SameTokens
  <2> QED
    BY <1>7, <1>27, <2>2, <2>3
<1>29. DeliveryInv'
  <2>1. Pending(client')
    BY <1>21 DEF Pending
  <2> QED
    BY <1>21, <1>27, <1>28, <2>1, TakenDelivery
<1>30. client.listening => (client'.view.synced <=> client.view.synced
                              \/ (IsActiveTarget(client) /\ client.target.change = "added"))
  <2>1. c.target = client.target
    BY <1>2 DEF SameRemote
  <2>2. IsActiveTarget(client) => change # Nil /\ change.change = client.target.change
    BY <1>2, <1>8, <2>1
  <2>3. ~ IsActiveTarget(client) => change = Nil
    BY <1>2, <1>8
  <2> QED
    BY <1>4, <1>5, <1>14, <1>15, <2>2, <2>3
<1>31. client'.remote_keys <=> client.remote_keys
                              \/ (IsActiveTarget(client) /\ client.target.change = "added")
  BY <1>2, <1>4, <1>8, <1>21 DEF SameTokens, SameRemote
<1>32. TokensOK(client')
  <2>1. ASSUME NEW i \in DOMAIN client'.requests, client'.requests[i].type = "watch"
        PROVE  client'.requests[i].resume_token <= client'.resume_token
    <3>1. client.requests[i].resume_token <= client.resume_token /\ i \in DOMAIN client.requests
      BY <1>21, <1>27, <2>1 DEF TokensOK
    <3>2. client.requests \in Seq(Requests)
      BY <1>3 DEF Clients
    <3>3. client.requests[i] \in Requests
      BY <3>1, <3>2
    <3>4. client.requests[i].resume_token \in Nat
      BY <1>21, <2>1, <3>3 DEF Requests
    <3> QED
      BY <1>21, <1>27, <1>28, <3>1, <3>4
  <2>2. ASSUME client'.resume_token >= 2
        PROVE  /\ client'.remote_keys /\ client'.resume_token <= client'.cache.version
               /\ client'.listening => client'.view.synced
    <3>1. CASE IsActiveTarget(client)
      <4>1. client'.resume_token = v
        BY <1>2, <1>8, <1>21, <3>1
      <4>2. v <= e.cache.version /\ (client.view.synced \/ client.target.change = "added")
        BY <1>9, <2>2, <3>1, <4>1
      <4>3. client.listening
        BY <3>1 DEF IsActiveTarget
      <4>4. client.view.synced => client.remote_keys
        BY <1>27, <4>3 DEF TokensOK
      <4> QED
        BY <1>21, <1>30, <1>31, <3>1, <4>1, <4>2, <4>3, <4>4
    <3>2. CASE ~ IsActiveTarget(client)
      <4>1. client'.resume_token = client.resume_token
        BY <1>2, <1>4, <1>8, <1>21, <3>2 DEF SameTokens
      <4>2. /\ client.remote_keys /\ client.resume_token <= client.cache.version
            /\ client.listening => client.view.synced
        BY <1>27, <2>2, <4>1 DEF TokensOK
      <4> QED
        BY <1>9, <1>18, <1>21, <1>27, <1>30, <1>31, <4>1, <4>2
    <3> QED
      BY <3>1, <3>2
  <2>3. client'.listening /\ client'.view.synced => client'.remote_keys
    BY <1>21, <1>27, <1>30, <1>31 DEF TokensOK
  <2> QED
    BY <2>1, <2>2, <2>3 DEF TokensOK
<1>33. WatchInv'
  <2>1. client.target.outstanding_responses \in Nat /\ ~ IsReply(Head(fromServer))
    BY RepliesDue DEF IsReply
  <2>2. client'.target.outstanding_responses = client.target.outstanding_responses
               - (IF IsReply(Head(fromServer)) THEN 1 ELSE 0)
    BY <1>21, <2>1
  <2>3. client'.listening => /\ client'.view.since = client.view.since
                             /\ client.view.synced => client'.view.synced
    BY <1>5, <1>17, <1>21, <1>30
  <2> QED
    BY <1>9, <1>18, <1>21, <1>32, <2>1, <2>2, <2>3, TakenWatch
<1> QED
  BY <1>22, <1>26, <1>29, <1>33 DEF ReadsInv

LEMMA RefusedReads ==
    ASSUME IInv, ReadsInv, IInv', fromServer # <<>>, fromServer' = Tail(fromServer),
           UNCHANGED <<worker, appVars, log, applied, watched>>,
           Head(fromServer).type = "refused", client.listening,
           NEW c, c = UpdateState(client, "Online"), Becomes(ProcessTargetError(c))
    PROVE  ReadsInv'
<1> DEFINE L == client.listeners
           B == Known
           r == refused
           S == Tellable(Known, B, r)
           error == [gets |-> L, snapshot |-> Nil]
<1>1. Sound(client, L, S) /\ TrackerOK(client) /\ L \in SUBSET Gets
  BY SoundReads, StartsSound
<1>2. /\ SameStore(client, client')
      /\ client'.requests = client.requests /\ client'.update = client.update
      /\ ~ client'.listening /\ client'.view = Nil /\ client'.snapshot = Nil
      /\ client'.listeners = {}
      /\ \E p \in Seq(Batches(L, S)) : main' = main \o p \/ main' = main \o Append(p, error)
  BY <1>1, ErrorEffect
<1>3. CacheInv' /\ Known' = B /\ refused' = refused
  BY <1>2, CacheSame DEF SameStore, ReadsInv, appVars
<1>4. \A e \in Elements(main') : e \in Elements(main) \/ e \in Batches(L, S \cup {Nil})
  <2>1. PICK p \in Seq(Batches(L, S)) : main' = main \o p \/ main' = main \o Append(p, error)
    BY <1>2
  <2>2. /\ Batches(L, S) \subseteq Batches(L, S \cup {Nil}) /\ error \in Batches(L, S \cup {Nil})
        /\ Batches(L, S \cup {Nil}) \subseteq Events
    BY <1>1 DEF Batches, Events, Tellable
  <2> HIDE DEF error, L, S
  <2>3. p \in Seq(Batches(L, S \cup {Nil})) /\ Append(p, error) \in Seq(Batches(L, S \cup {Nil}))
    BY <2>2, SeqMonotonic, AppendProperties
  <2>4. PICK q \in Seq(Batches(L, S \cup {Nil})) : main' = main \o q
    BY <2>1, <2>3
  <2>5. q \in Seq(Events) /\ main \in Seq(Events)
    BY <2>2, SeqMonotonic DEF IInv, TypeOK
  <2>6. Elements(main') = Elements(main) \cup Elements(q)
    BY <2>4, <2>5, ElementsOfConcat
  <2>7. \A e \in Elements(q) : e \in Batches(L, S \cup {Nil})
    BY DEF Elements
  <2> QED
    BY <2>6, <2>7
<1>5. KnownInv' /\ FreshInv'
  <2>1. /\ InStep(client)' /\ UNCHANGED <<Reports, log, watched>> /\ UNCHANGED worker
        /\ client'.listeners \subseteq L /\ \A g \in L : must[g] \subseteq Known
        /\ B = Known' /\ Known \subseteq B /\ r = refused' /\ refused \subseteq r
    BY <1>2, <1>3 DEF IInv, ReadsInv, KnownInv, appVars, Reports
  <2>2. /\ ~ (client'.view # Nil) /\ ViewShows(client', B, r)
        /\ client'.snapshot \in Tellable(Known, B, r) \cup {Nil}
        /\ L \in SUBSET Gets
    BY <1>1, <1>2 DEF ViewShows
  <2>3. \A e \in Elements(main') : e \in Elements(main) \/ e \in Batches(L, Tellable(Known, B, r) \cup {Nil})
    BY <1>4
  <2> HIDE DEF L, B, r
  <2> QED
    BY <2>1, <2>2, <2>3, KnownStep
<1>6. fromServer \in Seq(Messages) /\ DeliveryInv /\ TokensOK(client)
  BY DEF IInv, TypeOK, ReadsInv, WatchInv
<1>7. client'.update = Nil
  <2>1. Head(fromServer) = fromServer[1]
    BY <1>6
  <2> QED
    BY <1>2, <1>6, <2>1 DEF DeliveryInv
<1>8. DeliveryInv'
  <2>1. Pending(client')
    BY <1>7 DEF Pending
  <2>2. client'.resume_token <= client'.last_remote_snapshot
        /\ client'.last_remote_snapshot = client.last_remote_snapshot
    BY <1>2, <1>6 DEF SameStore, DeliveryInv
  <2> QED
    BY <1>6, <2>1, <2>2, TakenDelivery
<1>9. TokensOK(client')
  BY <1>2, <1>6 DEF TokensOK, SameStore
<1>10. WatchInv'
  BY <1>2, <1>9 DEF WatchInv, Live
<1> QED
  BY <1>3, <1>5, <1>8, <1>10 DEF ReadsInv

LEMMA OnWatchStreamChangeReads == IInv /\ ReadsInv /\ IInv' /\ OnWatchStreamChange => ReadsInv'
<1> SUFFICES ASSUME IInv, ReadsInv, IInv', OnWatchStreamChange PROVE ReadsInv'
  OBVIOUS
<1> DEFINE msg == Head(fromServer)
<1>1. /\ fromServer # <<>> /\ fromServer' = Tail(fromServer)
      /\ UNCHANGED <<worker, appVars, log, applied, watched>>
  BY DEF OnWatchStreamChange
<1>2. PICK c : c = UpdateState(client, "Online") /\ Becomes(WatchChange(c, msg))
  BY DEF OnWatchStreamChange
<1>3. fromServer \in Seq(Messages) /\ msg \in Messages /\ DeliveryInv
  BY <1>1, HeadTailProperties DEF IInv, TypeOK, ReadsInv
<1>4. /\ 1 \in DOMAIN fromServer /\ msg = fromServer[1]
      /\ \A i \in DOMAIN fromServer : i # 1 => /\ i - 1 \in DOMAIN fromServer'
                                               /\ fromServer'[i - 1] = fromServer[i]
  BY <1>1, <1>3, Shifted
<1>5. 1 + 1 \in DOMAIN fromServer => 1 \in DOMAIN fromServer' /\ fromServer'[1] = fromServer[1 + 1]
  <2>1. 1 + 1 # 1 /\ (1 + 1) - 1 = 1
    OBVIOUS
  <2> QED
    BY <1>4, <2>1
<1>6. /\ SameRemote(client, c) /\ c \in Clients
      /\ IsActiveTarget(c) <=> IsActiveTarget(client)
  BY <1>2, StartsSound, OnlineFacts DEF Sound, Tells
<1>7. c.target = client.target /\ c.update = client.update /\ c.listening = client.listening
  BY <1>6 DEF SameRemote
<1>8. c.target.outstanding_responses \in Nat
  BY <1>7, RepliesDue
<1>9. msg.type \notin {"current", "snapshot"} => client.update = Nil
  BY <1>3, <1>4 DEF DeliveryInv
<1>10. ASSUME IsReply(msg) PROVE c.target.outstanding_responses > 0
  <2>1. Cardinality(Replies(Tail(fromServer))) + 1 <= Cardinality(Replies(fromServer))
    BY <1>1, <1>3, <1>10, RepliesOfTail
  <2>2. Tail(fromServer) \in Seq(Messages)
    BY <1>1, <1>3
  <2>3. Cardinality(Replies(Tail(fromServer))) \in Nat
    BY <2>2, RepliesFinite
  <2>4. /\ Cardinality(Replies(fromServer)) \in Nat
        /\ Cardinality(Replies(fromServer)) <= client.target.outstanding_responses
    BY RepliesDue
  <2> QED
    BY <1>7, <1>8, <2>1, <2>3, <2>4
<1> HIDE DEF msg
<1>11. CASE msg.type = "added" \/ msg.type = "removed"
  <2>1. PICK d : d \in {TargetAdded(c), TargetRemoved(c)} /\ Becomes(d)
    BY <1>2, <1>11 DEF WatchChange
  <2>2. IsReply(msg)
    BY <1>11 DEF IsReply
  <2>3. /\ OnlyTarget(c, d) /\ d.update = c.update
        /\ d.target.outstanding_responses = c.target.outstanding_responses - 1
    BY <1>6, <1>10, <2>1, <2>2, TargetFacts
  <2>4. d.target.outstanding_responses =
           c.target.outstanding_responses - (IF IsReply(Head(fromServer)) THEN 1 ELSE 0)
    BY <2>2, <2>3 DEF msg
  <2>5. Pending(d)
    BY <1>7, <1>9, <1>11, <2>3 DEF Pending
  <2>6. Head(fromServer).type # "current" /\ Head(fromServer).type # "document"
    BY <1>11 DEF msg
  <2> QED
    BY <1>1, <1>2, <2>1, <2>3, <2>4, <2>5, <2>6, TargetReads
<1>12. CASE msg.type = "current"
  <2> DEFINE d == TargetCurrent(c)
  <2>1. Becomes(d)
    BY <1>2, <1>12 DEF WatchChange
  <2>2. /\ OnlyTarget(c, d) /\ d.target.outstanding_responses = c.target.outstanding_responses
        /\ d.target.change = c.target.change /\ d.update = c.update
    BY <1>6, TargetFacts
  <2> HIDE DEF d
  <2>3. d.target.outstanding_responses =
           c.target.outstanding_responses - (IF IsReply(Head(fromServer)) THEN 1 ELSE 0)
    BY <1>8, <1>12, <2>2 DEF IsReply, msg
  <2>4. 1 + 1 \in DOMAIN fromServer /\ fromServer[1 + 1].type = "snapshot"
    BY <1>3, <1>4, <1>12 DEF DeliveryInv
  <2>5. IsActiveTarget(d) => IsActiveTarget(client)
    BY <1>7, <2>2 DEF IsActiveTarget, OnlyTarget
  <2>6. Pending(d)
    BY <1>3, <1>5, <1>7, <2>2, <2>4, <2>5 DEF Pending, DeliveryInv
  <2>7. Head(fromServer).type # "document" /\ d.update = client.update
    BY <1>7, <1>12, <2>2 DEF msg
  <2> QED
    BY <1>1, <1>2, <2>1, <2>2, <2>3, <2>6, <2>7, TargetReads
<1>13. CASE msg.type = "document"
  <2> DEFINE doc == [version |-> msg.version, has |-> msg.has]
             d == AddDocumentToTarget(c, doc)
  <2>1. Becomes(d) /\ d = AddDocumentToTarget(c, doc)
    BY <1>2, <1>13 DEF WatchChange
  <2>2. doc \in Documents
    BY <1>3, <1>13 DEF Messages, Documents
  <2>3. doc.version = msg.version /\ doc.has = msg.has /\ doc # Nil
    BY <2>2, NilRecordAssumption
  <2> HIDE DEF d, doc
  <2>4. /\ OnlyTarget(c, d) /\ d.target.outstanding_responses = c.target.outstanding_responses
        /\ ~ IsActiveTarget(c) => d.update = c.update
        /\ IsActiveTarget(c) =>
              d.update = doc /\ d.target.change = IF c.view.synced THEN "modified" ELSE "added"
    BY <1>6, <2>1, <2>2, DocumentFacts
  <2>5. d.target.outstanding_responses =
           c.target.outstanding_responses - (IF IsReply(Head(fromServer)) THEN 1 ELSE 0)
    BY <1>8, <1>13, <2>4 DEF IsReply, msg
  <2>6. /\ Delivered(msg) /\ 1 + 1 \in DOMAIN fromServer
        /\ fromServer[1 + 1].type \in {"current", "snapshot"}
    BY <1>3, <1>4, <1>13 DEF DeliveryInv
  <2>7. Delivered(doc)
    BY <2>3, <2>6 DEF Delivered
  <2>8. Pending(d)
    <3>1. CASE IsActiveTarget(c)
      BY <1>5, <2>4, <2>6, <2>7, <3>1 DEF Pending
    <3>2. CASE ~ IsActiveTarget(c)
      BY <1>7, <1>9, <1>13, <2>4, <3>2 DEF Pending
    <3> QED
      BY <3>1, <3>2
  <2>9. /\ Head(fromServer).type # "current"
        /\ IsActiveTarget(client) => d.update # Nil /\ d.update.version = Head(fromServer).version
    BY <1>6, <1>13, <2>3, <2>4 DEF msg
  <2> QED
    BY <1>1, <1>2, <2>1, <2>4, <2>5, <2>8, <2>9, TargetReads
<1>14. CASE msg.type = "snapshot"
  <2>1. Becomes(RaiseWatchSnapshot(c, msg.version)) /\ Head(fromServer).type = "snapshot"
        /\ msg.version = Head(fromServer).version
    BY <1>2, <1>14 DEF WatchChange, msg
  <2> QED
    BY <1>1, <1>2, <2>1, SnapshotReads
<1>15. CASE msg.type = "refused"
  <2>1. Becomes(ProcessTargetError(c)) /\ Head(fromServer).type = "refused"
    BY <1>2, <1>15 DEF WatchChange, msg
  <2>2. CASE client.listening
    BY <1>1, <1>2, <2>1, <2>2, RefusedReads
  <2>3. CASE ~ client.listening
    <3>1. ProcessTargetError(c) = c
      BY <1>7, <2>3 DEF ProcessTargetError
    <3>2. OnlyTarget(c, c) /\ Becomes(c)
      BY <1>6, <2>1, <3>1, OnlyTargetItself
    <3>3. c.target.outstanding_responses =
             c.target.outstanding_responses - (IF IsReply(Head(fromServer)) THEN 1 ELSE 0)
      BY <1>8, <1>15 DEF IsReply, msg
    <3>4. Pending(c)
      BY <1>7, <1>9, <1>15 DEF Pending
    <3>5. Head(fromServer).type # "current" /\ Head(fromServer).type # "document"
      BY <2>1
    <3> QED
      BY <1>1, <1>2, <3>2, <3>3, <3>4, <3>5, TargetReads
  <2> QED
    BY <2>2, <2>3
<1> QED
  BY <1>3, <1>11, <1>12, <1>13, <1>14, <1>15 DEF Messages

-----------------------------------------------------------------------------
(* The theorems.                                                            *)

\* The only step that tells the app anything is the one that takes an event.
LEMMA OnlyEventsAnswer == [Next]_vars => OnEvent \/ UNCHANGED answer
  BY DEF Next, GetDocument, WriteMutations, AddQueryListener, RemoveQueryListener,
     WriteLocally, StreamOpen, StreamRefused, BackoffTimer, OnlineStateTimer, OnWatchStreamChange,
     WriteAcknowledged, WriteRejected, IdleTimer, Server, ServerHandle, ServerUpdate, WatchAdvance, ServerCommit,
     ServerRefuse, ForeignWrite, StreamBreak, ConnectivityChange, Restart, appVars, vars

\* Cache, messages, views and events stay in the relation that makes the
\* answers true, and the answers are true.
THEOREM ReadsInvariant == Spec => [](ReadsInv /\ SessionReads /\ FreshAnswer)
<1>1. IInv /\ IInv' /\ ReadsInv /\ [Next]_vars => ReadsInv'
  <2>1. SUFFICES ASSUME IInv, IInv', ReadsInv, [Next]_vars PROVE ReadsInv'
    OBVIOUS
  <2>2. CASE GetDocument \/ WriteMutations \/ OnEvent
    BY <2>1, <2>2, GetDocumentReads, WriteMutationsReads, OnEventReads
  <2>3. CASE AddQueryListener \/ RemoveQueryListener \/ WriteLocally
    BY <2>1, <2>3, AddQueryListenerReads, RemoveQueryListenerReads, WriteLocallyReads
  <2>4. CASE StreamOpen \/ StreamRefused \/ StreamBreak \/ IdleTimer \/ ConnectivityChange
    BY <2>1, <2>4, StreamOpenReads, BrokenReads, StoppedReads
  <2>5. CASE BackoffTimer \/ OnlineStateTimer
    BY <2>1, <2>5, BackoffTimerReads, OnlineStateTimerReads
  <2>6. CASE OnWatchStreamChange \/ WriteAcknowledged \/ WriteRejected \/ Restart
    BY <2>1, <2>6, OnWatchStreamChangeReads, WriteAcknowledgedReads, WriteRejectedReads,
       RestartReads
  <2>7. CASE Server \/ ServerCommit \/ ServerRefuse \/ ForeignWrite
    BY <2>1, <2>7, ServerHandleReads, ServerUpdateReads, WatchAdvanceReads, ServerCommitReads,
       ServerRefuseReads, ForeignWriteReads DEF Server
  <2>8. CASE UNCHANGED vars
    BY <2>1, <2>8, ReadsStutters
  <2> QED
    BY <2>1, <2>2, <2>3, <2>4, <2>5, <2>6, <2>7, <2>8 DEF Next
<1>2. IInv /\ ReadsInv /\ SessionReads /\ FreshAnswer /\ [Next]_vars => SessionReads' /\ FreshAnswer'
  BY OnlyEventsAnswer, Answered
<1> QED
  BY <1>1, <1>2, ReadsInitially, GetsInvariant, PTL DEF Spec

\* A successful answer shows every write that the app made, and everything
\* that it was shown, before it called getDocument: no late watch update, no
\* restart, no offline answer and no shared view takes anything back.
THEOREM SessionReadsCorrect == Spec => []SessionReads
  BY ReadsInvariant, PTL

\* An answer that claims to come from the server, when no own write is on its
\* way, has what watch had when the query was listened to.
THEOREM FreshAnswerCorrect == Spec => []FreshAnswer
  BY ReadsInvariant, PTL
=============================================================================
