---------------------------- MODULE SettingsProofs ----------------------------
(* Machine-checked proofs about Settings, for every set of cameras, levels, *)
(* addresses, files and posts of the right types.                          *)
(*                                                                         *)
(* A config is typed as a function of its keys and each value by its key,  *)
(* so the proofs reason about what Over and Restrict do to such functions: *)
(* IsEntry and IsPartial say by key what Entries and IsPartialConfig say   *)
(* with sets.                                                              *)
EXTENDS Settings, TLAPS

IsFunction(f) == f = [k \in DOMAIN f |-> f[k]]

IsEntry(e) ==
    /\ IsFunction(e) /\ DOMAIN e \subseteq Fields
    /\ "rotate" \in DOMAIN e => e["rotate"] \in 0 .. 3 \cup {Null}
    /\ "mirror" \in DOMAIN e => e["mirror"] \in BOOLEAN \cup {Null}

IsMap(m) ==
    /\ IsFunction(m) /\ DOMAIN m \subseteq Devs
    /\ \A d \in DOMAIN m : m[d] \in Entries \cup NoMap

IpLists == {Null} \cup SUBSET (Ips \cup {Null})

IsPartial(c) ==
    /\ DOMAIN c \subseteq Keys
    /\ "logging" \in DOMAIN c => c["logging"] \in Levels \cup NoMap
    /\ "cameras" \in DOMAIN c => c["cameras"] \in CameraMaps \cup NoMap
    /\ "discovery_ips" \in DOMAIN c => c["discovery_ips"] \in IpLists

-----------------------------------------------------------------------------
(* Over, on any functions.                                                 *)
LEMMA OverIs ==
    ASSUME NEW f, NEW g
    PROVE  /\ IsFunction(Over(f, g))
           /\ DOMAIN Over(f, g) = DOMAIN f \cup DOMAIN g
           /\ \A k \in DOMAIN f : Over(f, g)[k] = f[k]
           /\ \A k \in DOMAIN g \ DOMAIN f : Over(f, g)[k] = g[k]
BY DEF Over, IsFunction

(* What holds of a key's value in both functions holds in the one over the *)
(* other.                                                                  *)
LEMMA OverAt ==
    ASSUME NEW f, NEW g, NEW k, NEW S,
           k \in DOMAIN f => f[k] \in S, k \in DOMAIN g => g[k] \in S
    PROVE  k \in DOMAIN Over(f, g) => Over(f, g)[k] \in S
BY DEF Over

(* Over what has no other keys a function is as it was.                    *)
LEMMA OverFewer ==
    ASSUME NEW f, NEW g, IsFunction(f), DOMAIN g \subseteq DOMAIN f
    PROVE  Over(f, g) = f
BY DEF Over, IsFunction

LEMMA KeysAre == Keys = {"logging", "cameras", "discovery_ips"}
BY DEF Keys, Default

(* The entries, by field.                                                  *)
LEMMA EntryByField == \A e : e \in Entries <=> IsEntry(e)
<1>1. DefaultEntry.rotate \in 0 .. 3 /\ DefaultEntry.mirror \in BOOLEAN
  BY DEF DefaultEntry
<1>2. ASSUME NEW e \in Entries PROVE IsEntry(e)
  <2>1. PICK full \in FullEntries, K \in SUBSET Fields : e = Restrict(full, K)
    BY <1>2 DEF Entries
  <2>2. DOMAIN e = K /\ IsFunction(e) /\ \A k \in K : e[k] = full[k]
    BY <2>1 DEF Restrict, IsFunction
  <2>3. QED BY <2>1, <2>2 DEF FullEntries, IsEntry, Fields
<1>3. ASSUME NEW e, IsEntry(e) PROVE e \in Entries
  <2> DEFINE full == [k \in Fields |-> IF k \in DOMAIN e THEN e[k] ELSE DefaultEntry[k]]
  <2>1. full \in FullEntries
    BY <1>1, <1>3 DEF IsEntry, FullEntries, Fields
  <2>2. \A k \in DOMAIN e : full[k] = e[k]
    BY <1>3 DEF IsEntry
  <2>3. Restrict(full, DOMAIN e) = [k \in DOMAIN e |-> e[k]]
    BY <2>2 DEF Restrict
  <2>4. QED BY <2>1, <2>3, <1>3 DEF Entries, IsEntry, IsFunction
<1>4. QED BY <1>2, <1>3

LEMMA OverEntry ==
    ASSUME NEW e \in Entries, NEW f \in Entries
    PROVE  Over(e, f) \in Entries /\ DOMAIN Over(e, f) = DOMAIN e \cup DOMAIN f
<1>1. IsEntry(e) /\ IsEntry(f)
  BY EntryByField
<1>2. IsEntry(Over(e, f))
  <2>1. IsFunction(Over(e, f)) /\ DOMAIN Over(e, f) \subseteq Fields
    BY <1>1, OverIs DEF IsEntry
  <2>2. /\ "rotate" \in DOMAIN Over(e, f) => Over(e, f)["rotate"] \in 0 .. 3 \cup {Null}
        /\ "mirror" \in DOMAIN Over(e, f) => Over(e, f)["mirror"] \in BOOLEAN \cup {Null}
    BY <1>1, OverAt DEF IsEntry
  <2>3. QED BY <2>1, <2>2 DEF IsEntry
<1>3. QED BY <1>2, EntryByField, OverIs

LEMMA RestrictEntry ==
    ASSUME NEW e \in Entries, NEW K \in SUBSET DOMAIN e
    PROVE  Restrict(e, K) \in Entries
<1>1. IsEntry(e)
  BY EntryByField
<1>2. /\ DOMAIN Restrict(e, K) = K /\ IsFunction(Restrict(e, K))
      /\ \A k \in K : Restrict(e, K)[k] = e[k]
  BY DEF Restrict, IsFunction
<1>3. IsEntry(Restrict(e, K))
  BY <1>1, <1>2 DEF IsEntry
<1>4. QED BY <1>3, EntryByField

LEMMA SmallEntries ==
    /\ Empty \in Entries /\ DefaultEntry \in Entries
    /\ DOMAIN Empty = {} /\ DOMAIN DefaultEntry = Fields
    /\ \A r \in 0 .. 3 \cup {Null} : [rotate |-> r] \in Entries
    /\ \A m \in BOOLEAN \cup {Null} : [mirror |-> m] \in Entries
<1>1. IsEntry(Empty)
  BY DEF Empty, IsEntry, IsFunction
<1>2. IsEntry(DefaultEntry)
  BY DEF DefaultEntry, IsEntry, IsFunction, Fields
<1>3. ASSUME NEW r \in 0 .. 3 \cup {Null} PROVE IsEntry([rotate |-> r])
  BY DEF IsEntry, IsFunction, Fields
<1>4. ASSUME NEW m \in BOOLEAN \cup {Null} PROVE IsEntry([mirror |-> m])
  BY DEF IsEntry, IsFunction, Fields
<1>5. QED BY <1>1, <1>2, <1>3, <1>4, EntryByField DEF Empty, DefaultEntry, Fields

(* No map of cameras and no entry is a null or a scrap.                    *)
LEMMA MapsAreMaps ==
    /\ \A e \in Entries : e \notin NoMap
    /\ \A m \in CameraMaps : m \notin NoMap
    /\ Null \in NoMap /\ Scrap \in NoMap
BY InputsAssumption DEF NoMap

LEMMA FilledEntry ==
    ASSUME NEW e \in Entries \cup NoMap, e # Scrap
    PROVE  Filled(e) \in Entries
BY SmallEntries DEF Filled, NoMap

(* The maps of cameras.                                                    *)
LEMMA MapByCamera == \A m : m \in CameraMaps <=> IsMap(m)
BY DEF CameraMaps, IsMap, IsFunction

LEMMA EmptyMap == Empty \in CameraMaps /\ DOMAIN Empty = {}
<1>1. IsMap(Empty)
  BY DEF Empty, IsMap, IsFunction
<1>2. QED BY <1>1, MapByCamera DEF Empty

LEMMA OverMap ==
    ASSUME NEW m \in CameraMaps, NEW n \in CameraMaps
    PROVE  Over(m, n) \in CameraMaps
<1>1. IsMap(m) /\ IsMap(n)
  BY MapByCamera
<1>2. IsMap(Over(m, n))
  <2>1. IsFunction(Over(m, n)) /\ DOMAIN Over(m, n) \subseteq Devs
    BY <1>1, OverIs DEF IsMap
  <2>2. \A d \in DOMAIN Over(m, n) : Over(m, n)[d] \in Entries \cup NoMap
    BY <1>1, OverAt DEF IsMap
  <2>3. QED BY <2>1, <2>2 DEF IsMap
<1>3. QED BY <1>2, MapByCamera

LEMMA RestrictMap ==
    ASSUME NEW m \in CameraMaps, NEW D \in SUBSET DOMAIN m
    PROVE  Restrict(m, D) \in CameraMaps /\ DOMAIN Restrict(m, D) = D
<1>1. IsMap(m)
  BY MapByCamera
<1>2. /\ DOMAIN Restrict(m, D) = D /\ IsFunction(Restrict(m, D))
      /\ \A d \in D : Restrict(m, D)[d] = m[d]
  BY DEF Restrict, IsFunction
<1>3. IsMap(Restrict(m, D))
  BY <1>1, <1>2 DEF IsMap
<1>4. QED BY <1>2, <1>3, MapByCamera

LEMMA OneEntryMap ==
    ASSUME NEW d \in Devs, NEW e \in Entries \cup NoMap
    PROVE  [x \in {d} |-> e] \in CameraMaps
<1>1. IsMap([x \in {d} |-> e])
  BY DEF IsMap, IsFunction
<1>2. QED BY <1>1, MapByCamera

LEMMA EntryInMap ==
    ASSUME NEW m \in CameraMaps, NEW d
    PROVE  EntryIn(m, d) \in Entries \cup NoMap
BY MapByCamera, SmallEntries DEF EntryIn, IsMap

(* What a config has.                                                      *)
LEMMA ConfigHas ==
    ASSUME NEW c \in Configs
    PROVE  /\ IsFunction(c) /\ DOMAIN c = Keys
           /\ c.logging \in Levels \cup NoMap /\ c.cameras \in CameraMaps \cup NoMap
           /\ c.discovery_ips \in IpLists
BY KeysAre DEF Configs, IsFunction, IpLists

LEMMA ConfigByKey ==
    ASSUME NEW c, IsFunction(c), IsPartial(c), DOMAIN c = Keys
    PROVE  c \in Configs
BY KeysAre DEF Configs, IsPartial, IsFunction, IpLists

LEMMA ConfigIs == \A c \in Configs : IsPartial(c) /\ DOMAIN c = Keys
BY ConfigHas DEF IsPartial

LEMMA DefaultIsConfig == Default \in Configs
<1>1. (CHOOSE l \in Levels : TRUE) \in Levels /\ (CHOOSE i \in Ips : TRUE) \in Ips
  BY InputsAssumption
<1>2. QED BY <1>1, EmptyMap DEF Default, Configs

LEMMA OverPartial ==
    ASSUME NEW p, NEW q, IsPartial(p), IsPartial(q)
    PROVE  IsPartial(Over(p, q)) /\ DOMAIN Over(p, q) = DOMAIN p \cup DOMAIN q
<1>1. /\ DOMAIN Over(p, q) \subseteq Keys
      /\ DOMAIN Over(p, q) = DOMAIN p \cup DOMAIN q
  BY OverIs DEF IsPartial
<1>2. /\ "logging" \in DOMAIN Over(p, q) => Over(p, q)["logging"] \in Levels \cup NoMap
      /\ "cameras" \in DOMAIN Over(p, q)
            => Over(p, q)["cameras"] \in CameraMaps \cup NoMap
      /\ "discovery_ips" \in DOMAIN Over(p, q)
            => Over(p, q)["discovery_ips"] \in IpLists
  BY OverAt DEF IsPartial
<1>3. QED BY <1>1, <1>2 DEF IsPartial

LEMMA OverConfig ==
    ASSUME NEW p, IsPartial(p), NEW c \in Configs
    PROVE  Over(p, c) \in Configs
<1>1. IsPartial(c) /\ DOMAIN c = Keys
  BY ConfigIs
<1>2. IsPartial(Over(p, c)) /\ DOMAIN Over(p, c) = Keys
  BY <1>1, OverPartial DEF IsPartial
<1>3. IsFunction(Over(p, c))
  BY OverIs
<1>4. QED BY <1>2, <1>3, ConfigByKey

LEMMA PartialByKey == \A c : IsPartialConfig(c) <=> IsPartial(c)
<1>1. ASSUME NEW c, IsPartialConfig(c) PROVE IsPartial(c)
  <2>1. Over(c, Default) \in Configs /\ DOMAIN c \subseteq Keys
    BY <1>1 DEF IsPartialConfig
  <2>2. \A k \in DOMAIN c : Over(c, Default)[k] = c[k]
    BY OverIs
  <2>3. QED BY <2>1, <2>2, ConfigHas DEF IsPartial
<1>2. ASSUME NEW c, IsPartial(c) PROVE IsPartialConfig(c)
  BY <1>2, OverConfig, DefaultIsConfig DEF IsPartialConfig, IsPartial
<1>3. QED BY <1>1, <1>2

-----------------------------------------------------------------------------
(* A config after a step.  Each lemma says that it is a config still, and  *)
(* that the cameras of a set whose entries are complete stay complete.     *)

Complete(c, D) ==
    c.cameras \notin NoMap =>
        \A d \in D : /\ d \in DOMAIN c.cameras /\ c.cameras[d] \in Entries
                     /\ DOMAIN c.cameras[d] = Fields

(* Maps that can be laid over the other without raising.                   *)
Fits(new, old) ==
    \A d \in DOMAIN new : new[d] # Scrap /\ EntryIn(old, d) \notin NoMap

(* Entries over the entries of a map: the fields of both.                  *)
LEMMA OverEntriesIs ==
    ASSUME NEW new \in CameraMaps, NEW old \in CameraMaps, Fits(new, old)
    PROVE  /\ OverEntries(new, old) \in CameraMaps
           /\ DOMAIN OverEntries(new, old) = DOMAIN new
           /\ \A d \in DOMAIN new :
                /\ OverEntries(new, old)[d] \in Entries
                /\ DOMAIN EntryIn(old, d) \subseteq DOMAIN OverEntries(new, old)[d]
<1>1. IsMap(new)
  BY MapByCamera
<1>2. ASSUME NEW d \in DOMAIN new
      PROVE  /\ OverEntries(new, old)[d] \in Entries
             /\ DOMAIN EntryIn(old, d) \subseteq DOMAIN OverEntries(new, old)[d]
  <2>1. Filled(new[d]) \in Entries
    BY <1>1, <1>2, FilledEntry DEF IsMap, Fits
  <2>2. EntryIn(old, d) \in Entries
    BY <1>2, EntryInMap DEF Fits
  <2>3. OverEntries(new, old)[d] = Over(Filled(new[d]), EntryIn(old, d))
    BY <1>2 DEF OverEntries
  <2>4. QED BY <2>1, <2>2, <2>3, OverEntry
<1>3. DOMAIN OverEntries(new, old) = DOMAIN new /\ IsFunction(OverEntries(new, old))
  BY DEF OverEntries, IsFunction
<1>4. IsMap(OverEntries(new, old))
  BY <1>1, <1>2, <1>3 DEF IsMap
<1>5. QED BY <1>2, <1>3, <1>4, MapByCamera

(* A map over a map takes no camera and no field of one away.               *)
LEMMA MergedIs ==
    ASSUME NEW new \in CameraMaps, NEW old \in CameraMaps, Fits(new, old)
    PROVE  /\ MergedCameras(new, old) \in CameraMaps
           /\ DOMAIN old \subseteq DOMAIN MergedCameras(new, old)
           /\ \A d \in DOMAIN old :
                /\ old[d] \in Entries =>
                      /\ MergedCameras(new, old)[d] \in Entries
                      /\ DOMAIN old[d] \subseteq DOMAIN MergedCameras(new, old)[d]
                /\ d \notin DOMAIN new => MergedCameras(new, old)[d] = old[d]
<1> DEFINE over == OverEntries(new, old)
<1>1. MergedCameras(new, old) = Over(over, old)
  BY MapsAreMaps DEF MergedCameras, OverEntries
<1>2. /\ over \in CameraMaps /\ DOMAIN over = DOMAIN new
      /\ Over(over, old) \in CameraMaps
  BY OverEntriesIs, OverMap
<1>3. DOMAIN Over(over, old) = DOMAIN new \cup DOMAIN old
  BY <1>2 DEF Over
<1>4. \A d \in DOMAIN old \ DOMAIN new : Over(over, old)[d] = old[d]
  BY <1>2 DEF Over
<1>5. \A d \in DOMAIN new : Over(over, old)[d] = over[d]
  BY <1>2 DEF Over
<1>6. \A d \in DOMAIN old : old[d] \in Entries =>
         /\ Over(over, old)[d] \in Entries
         /\ DOMAIN old[d] \subseteq DOMAIN Over(over, old)[d]
  <2> SUFFICES ASSUME NEW d \in DOMAIN old, old[d] \in Entries
               PROVE  /\ Over(over, old)[d] \in Entries
                      /\ DOMAIN old[d] \subseteq DOMAIN Over(over, old)[d]
    OBVIOUS
  <2>1. CASE d \in DOMAIN new
    BY <1>5, <2>1, OverEntriesIs DEF EntryIn
  <2>2. CASE d \notin DOMAIN new
    BY <1>4, <2>2
  <2>3. QED BY <2>1, <2>2
<1>7. QED BY <1>1, <1>2, <1>3, <1>4, <1>6

(* A config that can be applied without raising.                           *)
Sound(new) ==
    /\ IsPartial(new)
    /\ "cameras" \in DOMAIN new =>
          \/ new.cameras \in NoMap \/ config.cameras \in NoMap
          \/ Fits(new.cameras, config.cameras)

LEMMA AppliedIs ==
    ASSUME config \in Configs, NEW new, Sound(new)
    PROVE  /\ Applied(new) \in Configs
           /\ \A D : Complete(config, D) => Complete(Applied(new), D)
           /\ config.cameras \in NoMap => Applied(new).cameras \in NoMap
           /\ Applied(new).cameras = IF "cameras" \in DOMAIN new
                                     THEN MergedCameras(new.cameras, config.cameras)
                                     ELSE config.cameras
<1> DEFINE merged == [k \in DOMAIN new |->
                        IF k = "cameras" THEN MergedCameras(new[k], config[k])
                                         ELSE new[k]]
           old == config["cameras"]
           now == MergedCameras(new["cameras"], old)
<1>1. IsPartial(new) /\ DOMAIN config = Keys /\ "cameras" \in Keys
  BY ConfigIs, KeysAre DEF Sound
<1>2. old \in CameraMaps \cup NoMap
  BY ConfigHas
<1>3. Applied(new) = Over(merged, config)
  BY DEF Applied
<1>4. "cameras" \in DOMAIN new =>
        /\ now \in CameraMaps \cup NoMap
        /\ old \in NoMap \/ new["cameras"] \in NoMap => now \in NoMap
  BY <1>1, <1>2, MergedIs DEF IsPartial, Sound, MergedCameras
<1>5. DOMAIN merged = DOMAIN new
  OBVIOUS
<1>6. /\ "cameras" \in DOMAIN new => merged["cameras"] = now
      /\ "logging" \in DOMAIN new => merged["logging"] = new["logging"]
      /\ "discovery_ips" \in DOMAIN new
           => merged["discovery_ips"] = new["discovery_ips"]
  OBVIOUS
<1>7. IsPartial(merged)
  BY <1>1, <1>4, <1>5, <1>6 DEF IsPartial
<1>8. Over(merged, config) \in Configs
  BY <1>7, OverConfig
<1>9. Over(merged, config)["cameras"] = IF "cameras" \in DOMAIN new THEN now ELSE old
  BY <1>1, <1>5, <1>6 DEF Over
<1>10. ASSUME NEW D, Complete(config, D) PROVE Complete(Over(merged, config), D)
  <2>1. CASE "cameras" \notin DOMAIN new \/ now \in NoMap
    BY <1>9, <1>10, <2>1 DEF Complete
  <2>2. CASE "cameras" \in DOMAIN new /\ now \notin NoMap
    <3>1. /\ new["cameras"] \in CameraMaps /\ old \in CameraMaps
          /\ new["cameras"] \notin NoMap /\ old \notin NoMap
      BY <1>1, <1>2, <1>4, <2>2 DEF IsPartial
    <3>2. Fits(new["cameras"], old)
      BY <2>2, <3>1 DEF Sound
    <3>3. \A d \in D : /\ d \in DOMAIN old /\ old[d] \in Entries
                       /\ DOMAIN old[d] = Fields
      BY <1>10, <3>1 DEF Complete
    <3>4. \A d \in D : /\ d \in DOMAIN now /\ now[d] \in Entries
                       /\ Fields \subseteq DOMAIN now[d]
      BY <3>1, <3>2, <3>3, MergedIs
    <3>5. \A d \in D : DOMAIN now[d] = Fields
      BY <3>4, EntryByField DEF IsEntry
    <3>6. QED BY <1>9, <2>2, <3>4, <3>5 DEF Complete
  <2>3. QED BY <2>1, <2>2
<1>11. QED BY <1>3, <1>4, <1>8, <1>9, <1>10

(* What apply_config does before it raises is the applying of a part that   *)
(* does not raise.                                                         *)
LEMMA ApplyIs ==
    ASSUME config \in Configs, NEW new, IsPartial(new), Apply(new)
    PROVE  \E part : /\ config' = Applied(part) /\ Sound(part)
                     /\ "cameras" \in DOMAIN part =>
                          /\ "cameras" \in DOMAIN new
                          /\ part.cameras = new.cameras
                             \/ /\ new.cameras \in CameraMaps
                                /\ part.cameras \in CameraMaps
                                /\ DOMAIN part.cameras \subseteq DOMAIN new.cameras
<1>1. config.cameras \in CameraMaps \cup NoMap
  BY ConfigHas
<1>2. CASE ~Raises(new)
  <2>1. config' = Applied(new)
    BY <1>2 DEF Apply
  <2>2. Sound(new)
    BY <1>1, <1>2 DEF Raises, Broken, Sound, Fits
  <2>3. QED BY <2>1, <2>2
<1>3. CASE Raises(new)
  <2>1. /\ "cameras" \in DOMAIN new /\ new.cameras \in CameraMaps
        /\ "cameras" \in Keys
    BY <1>3, KeysAre DEF Raises, IsPartial
  <2>2. PICK D \in SUBSET (DOMAIN new.cameras \ Broken(new)),
             K \in SUBSET (DOMAIN new \ {"cameras"}) :
           config' = Applied(Over([cameras |-> Restrict(new.cameras, D)], Restrict(new, K)))
    BY <1>3 DEF Apply, PartsBefore
  <2> DEFINE map == Restrict(new.cameras, D)
             part == Over([cameras |-> map], Restrict(new, K))
  <2>3. map \in CameraMaps /\ DOMAIN map = D
    BY <2>1, RestrictMap
  <2>4. \A d \in D : map[d] = new.cameras[d]
    BY DEF Restrict
  <2>5. IsPartial(part)
    <3>1. IsPartial([cameras |-> map])
      BY <2>1, <2>3 DEF IsPartial
    <3>2. DOMAIN Restrict(new, K) = K /\ \A k \in K : Restrict(new, K)[k] = new[k]
      BY DEF Restrict
    <3>3. IsPartial(Restrict(new, K))
      BY <3>2 DEF IsPartial
    <3>4. QED BY <3>1, <3>3, OverPartial
  <2>6. part["cameras"] = map
    BY DEF Over
  <2>7. config.cameras \in NoMap \/ Fits(map, config.cameras)
    BY <2>3, <2>4 DEF Broken, Fits
  <2>8. Sound(part)
    BY <2>5, <2>6, <2>7 DEF Sound
  <2>9. QED BY <2>1, <2>2, <2>3, <2>6, <2>8
<1>4. QED BY <1>2, <1>3

(* A handler that gives the live config one other camera map.              *)
LEMMA CamerasReplaced ==
    ASSUME NEW c \in Configs, NEW m \in CameraMaps
    PROVE  /\ [c EXCEPT !.cameras = m] \in Configs
           /\ [c EXCEPT !.cameras = m].cameras = m
BY DEF Configs

LEMMA WithOptionsIs ==
    ASSUME NEW c \in Configs,
           options \in [config_file : BOOLEAN, discovery_ip : Ips \cup {Null}]
    PROVE  WithOptions(c) \in Configs
<1>1. [c EXCEPT !.discovery_ips = {options.discovery_ip}] \in Configs
  BY DEF Configs
<1>2. QED BY <1>1 DEF WithOptions

LEMMA LoadIs ==
    /\ \A c : IsPartial(c) => Load(c) \in Configs
    /\ \A c \in Configs : Load(c) = c
    /\ IsPartial(Empty)
<1>1. ASSUME NEW c \in Configs PROVE Load(c) = c
  <2>1. IsFunction(c) /\ DOMAIN Default \subseteq DOMAIN c
    BY ConfigHas DEF Keys
  <2>2. QED BY <2>1, OverFewer DEF Load
<1>2. IsPartial(Empty)
  BY DEF IsPartial, Empty
<1>3. QED BY <1>1, <1>2, OverConfig, DefaultIsConfig DEF Load

(* A camera that has an entry, as its handlers see it.                     *)
LEMMA HasEntryIs ==
    ASSUME config \in Configs, NEW d, HasEntry(d)
    PROVE  /\ config.cameras \in CameraMaps /\ d \in DOMAIN config.cameras
           /\ config.cameras[d] \in Entries
BY ConfigHas, MapByCamera DEF HasEntry, IsMap

(* A request to a camera's page: some field of its entry is set.           *)
LEMMA FieldSet ==
    ASSUME config \in Configs, NEW d, HasEntry(d), NEW part \in Entries
    PROVE  /\ SetField(d, part) \in Configs
           /\ \A D : Complete(config, D) => Complete(SetField(d, part), D)
<1> DEFINE old == config.cameras
           now == [old EXCEPT ![d] = Over(part, old[d])]
<1>1. old \in CameraMaps /\ d \in DOMAIN old /\ old \notin NoMap
  BY HasEntryIs, MapsAreMaps
<1>2. /\ old[d] \in Entries
      /\ Over(part, old[d]) \in Entries
      /\ DOMAIN old[d] \subseteq DOMAIN Over(part, old[d])
  BY HasEntryIs, OverEntry
<1>3. now \in CameraMaps /\ DOMAIN now = DOMAIN old
  BY <1>1, <1>2, MapByCamera DEF IsMap, IsFunction
<1>4. SetField(d, part) = [config EXCEPT !.cameras = now]
  BY DEF SetField
<1>5. SetField(d, part) \in Configs /\ SetField(d, part).cameras = now
  BY <1>3, <1>4, CamerasReplaced
<1>6. ASSUME NEW D, Complete(config, D) PROVE Complete(SetField(d, part), D)
  <2>1. \A x \in D : /\ x \in DOMAIN old /\ old[x] \in Entries
                     /\ DOMAIN old[x] = Fields
    BY <1>1, <1>6 DEF Complete
  <2>2. \A x \in D : DOMAIN old[x] \subseteq DOMAIN now[x] /\ now[x] \in Entries
    BY <1>2, <2>1
  <2>3. \A x \in D : DOMAIN now[x] = Fields
    BY <2>1, <2>2, EntryByField DEF IsEntry
  <2>4. QED BY <1>3, <1>5, <2>1, <2>2, <2>3 DEF Complete
<1>7. QED BY <1>5, <1>6

(* What a rotation and a mirroring write.                                  *)
LEMMA FieldOrIs ==
    ASSUME config \in Configs, NEW d, HasEntry(d)
    PROVE  /\ FieldOr(d, "rotate", 0) # Null
                => [rotate |-> Turned(FieldOr(d, "rotate", 0))] \in Entries
           /\ [mirror |-> ~(FieldOr(d, "mirror", FALSE) = TRUE)] \in Entries
<1>1. IsEntry(config.cameras[d])
  BY HasEntryIs, EntryByField
<1>2. FieldOr(d, "rotate", 0) \in 0 .. 3 \cup {Null}
  BY <1>1 DEF FieldOr, IsEntry
<1>3. FieldOr(d, "rotate", 0) # Null => Turned(FieldOr(d, "rotate", 0)) \in 0 .. 3
  BY <1>2 DEF Turned
<1>4. (~(FieldOr(d, "mirror", FALSE) = TRUE)) \in BOOLEAN
  OBVIOUS
<1>5. QED BY <1>3, <1>4, SmallEntries

LEMMA CompletedIs ==
    ASSUME NEW m \in CameraMaps, NEW d \in Devs, EntryIn(m, d) \notin NoMap
    PROVE  /\ Completed(m, d) \in CameraMaps
           /\ DOMAIN Completed(m, d) = DOMAIN m \cup {d}
           /\ Completed(m, d)[d] \in Entries
           /\ DOMAIN Completed(m, d)[d] = Fields
           /\ \A x \in DOMAIN m \ {d} : Completed(m, d)[x] = m[x]
<1> DEFINE entry == Over(EntryIn(m, d), DefaultEntry)
           one == [x \in {d} |-> entry]
<1>1. entry \in Entries /\ DOMAIN entry = Fields
  BY EntryInMap, SmallEntries, OverEntry, EntryByField DEF IsEntry
<1>2. one \in CameraMaps
  BY <1>1, OneEntryMap
<1>3. Completed(m, d) = Over(one, m)
  BY DEF Completed
<1>4. Over(one, m) \in CameraMaps
  BY <1>2, OverMap
<1>5. /\ DOMAIN Over(one, m) = DOMAIN m \cup {d}
      /\ Over(one, m)[d] = entry
      /\ \A x \in DOMAIN m \ {d} : Over(one, m)[x] = m[x]
  BY DEF Over
<1>6. QED BY <1>1, <1>3, <1>4, <1>5

-----------------------------------------------------------------------------
(* What a write that fails leaves: configs that lack keys, with pieces of   *)
(* maps.                                                                   *)

LEMMA CutEntryIs ==
    ASSUME NEW e \in Entries \cup NoMap
    PROVE  CutEntry(e) \subseteq Entries \cup NoMap
<1>1. ASSUME e \notin NoMap, NEW f \in DOMAIN e, NEW v \in CutValues(f),
             NEW K \in SUBSET DOMAIN e
      PROVE  Over([x \in {f} |-> v], Restrict(e, K)) \in Entries
  <2>1. IsEntry(e) /\ f \in Fields
    BY <1>1, EntryByField DEF IsEntry
  <2>2. IsEntry([x \in {f} |-> v])
    BY <1>1, <2>1 DEF IsEntry, IsFunction, Fields, CutValues
  <2>3. QED BY <1>1, <2>2, EntryByField, RestrictEntry, OverEntry
<1>2. \A K \in SUBSET DOMAIN e : e \notin NoMap => Restrict(e, K) \in Entries
  BY RestrictEntry
<1>3. \A f \in DOMAIN e : e \notin NoMap => CutField(e, f) \subseteq Entries
  BY <1>1 DEF CutField
<1>4. {Restrict(e, K) : K \in (SUBSET DOMAIN e) \ {{}}} \subseteq Entries \cup NoMap
         \/ e \in NoMap
  BY <1>2
<1>5. QED BY <1>3, <1>4 DEF CutEntry

LEMMA CutMapIs ==
    ASSUME NEW m \in CameraMaps \cup NoMap
    PROVE  CutMap(m) \subseteq CameraMaps \cup NoMap
<1>1. ASSUME m \notin NoMap, NEW d \in DOMAIN m, NEW e \in CutEntry(m[d]),
             NEW D \in SUBSET DOMAIN m
      PROVE  Over([x \in {d} |-> e], Restrict(m, D)) \in CameraMaps
  <2>1. d \in Devs /\ m[d] \in Entries \cup NoMap
    BY <1>1, MapByCamera DEF IsMap
  <2>2. e \in Entries \cup NoMap
    BY <2>1, CutEntryIs
  <2>3. [x \in {d} |-> e] \in CameraMaps /\ Restrict(m, D) \in CameraMaps
    BY <1>1, <2>1, <2>2, OneEntryMap, RestrictMap
  <2>4. QED BY <2>3, OverMap
<1>2. \A d \in DOMAIN m : m \notin NoMap => CutCamera(m, d) \subseteq CameraMaps
  BY <1>1 DEF CutCamera
<1>3. QED BY <1>2 DEF CutMap

LEMMA BeginningsAre ==
    ASSUME NEW c \in Configs, NEW f \in Beginnings(c)
    PROVE  f = Garbage \/ IsPartial(f)
<1>1. /\ c.logging \in Levels \cup NoMap /\ c.cameras \in CameraMaps \cup NoMap
      /\ c.discovery_ips \in IpLists
  BY ConfigHas
<1>2. ASSUME NEW l \in Levels \cup NoMap PROVE IsPartial([logging |-> l])
  BY KeysAre DEF IsPartial
<1>3. ASSUME NEW m \in CutMap(c.cameras)
      PROVE  IsPartial([logging |-> c.logging, cameras |-> m])
  <2>1. m \in CameraMaps \cup NoMap
    BY <1>1, CutMapIs
  <2>2. QED BY <1>1, <2>1, KeysAre DEF IsPartial
<1>4. ASSUME NEW ips \in CutIps(c.discovery_ips)
      PROVE  IsPartial([c EXCEPT !.discovery_ips = ips])
  <2>1. ips \in IpLists
    BY <1>1 DEF CutIps, IpLists
  <2>2. [c EXCEPT !.discovery_ips = ips] \in Configs
    BY <2>1 DEF Configs, IpLists
  <2>3. QED BY <2>2, ConfigIs
<1>5. IsPartial(Empty)
  BY LoadIs
<1>6. QED BY <1>2, <1>3, <1>4, <1>5 DEF Beginnings

-----------------------------------------------------------------------------
(* The invariant: EntriesComplete needs the types, and RestartRestores that *)
(* what was saved whole is still what the file holds.                      *)

SavedInv == saved # Null => saved = file /\ saved \in Configs

IInv == TypeOK /\ Complete(config, found) /\ SavedInv

FileIs(f) == f \in {Null, Garbage} \/ IsPartial(f)

(* What the page posts is a config, its fields set over those of its copy.  *)
LEMMA ShownIs ==
    ASSUME NEW e \in Entries
    PROVE  ShownEntry(e) \in Entries
<1>1. IsEntry(e)
  BY EntryByField
<1>2. IsEntry(ShownEntry(e))
  <2>1. IsFunction(ShownEntry(e)) /\ DOMAIN ShownEntry(e) = Fields
    BY DEF ShownEntry, IsFunction, Fields
  <2>2. ShownEntry(e)["rotate"] \in 0 .. 3
    BY <1>1 DEF ShownEntry, IsEntry
  <2>3. ShownEntry(e)["mirror"] \in BOOLEAN
    BY DEF ShownEntry
  <2>4. QED BY <2>1, <2>2, <2>3 DEF IsEntry
<1>3. QED BY <1>2, EntryByField

LEMMA FormIs == FormEntries \subseteq Entries
<1>1. ASSUME NEW e \in [rotate : 0 .. 3, mirror : BOOLEAN], NEW K \in SUBSET Fields
      PROVE  Restrict(e, K) \in Entries
  BY DEF Entries, FullEntries
<1>2. QED BY <1>1 DEF FormEntries

LEMMA PagesAreParts ==
    ASSUME page \in Configs, NEW edit \in Edits
    PROVE  /\ Collected(edit) \in Configs
           /\ page.cameras = Scrap => Collected(edit).cameras = Scrap
           /\ page.cameras # Scrap =>
                 /\ Collected(edit).cameras \in CameraMaps
                 /\ DOMAIN Collected(edit).cameras = DOMAIN Filled(page.cameras)
<1> DEFINE shown == Filled(page.cameras)
           map == [d \in DOMAIN ShownConfig.cameras |->
                     IF page.cameras[d] = Scrap THEN Scrap
                     ELSE Over(edit.cameras[d], ShownConfig.cameras[d])]
<1>1. /\ page.logging \in Levels \cup NoMap /\ page.cameras \in CameraMaps \cup NoMap
      /\ page.discovery_ips \in IpLists
  BY ConfigHas
<1>2. /\ edit.logging \in Levels \cup {Null} /\ edit.cameras \in [Devs -> FormEntries]
      /\ edit.discovery_ips \in {Null} \cup SUBSET Ips
  BY InputsAssumption
<1>3. Default.logging \in Levels
  BY InputsAssumption DEF Default
<1>4. Collected(edit).logging \in Levels \cup NoMap
  BY <1>1, <1>2, <1>3 DEF Collected, ShownConfig, NoMap
<1>5. Collected(edit).discovery_ips \in IpLists
  BY <1>1, <1>2 DEF Collected, ShownConfig, IpLists
<1>6. ASSUME page.cameras # Scrap
      PROVE  map \in CameraMaps /\ DOMAIN map = DOMAIN shown
  <2>1. shown \in CameraMaps /\ (page.cameras # Null => shown = page.cameras)
    BY <1>1, <1>6, EmptyMap DEF Filled, NoMap
  <2>2. DOMAIN ShownConfig.cameras = DOMAIN shown
    BY <1>6 DEF ShownConfig
  <2>3. ASSUME NEW d \in DOMAIN shown PROVE map[d] \in Entries \cup NoMap
    <3>1. page.cameras # Null
      BY <2>3, EmptyMap DEF Filled
    <3>2. page.cameras[d] \in Entries \cup NoMap /\ d \in Devs
      BY <2>1, <2>3, <3>1, MapByCamera DEF IsMap
    <3>3. CASE page.cameras[d] = Scrap
      BY <2>2, <2>3, <3>3 DEF NoMap
    <3>4. CASE page.cameras[d] # Scrap
      <4>1. ShownConfig.cameras[d] = ShownEntry(Filled(page.cameras[d]))
        BY <1>6, <2>3, <3>4 DEF ShownConfig
      <4>2. ShownConfig.cameras[d] \in Entries
        BY <3>2, <3>4, <4>1, FilledEntry, ShownIs
      <4>3. edit.cameras[d] \in Entries
        BY <1>2, <3>2, FormIs
      <4>4. QED BY <2>2, <2>3, <3>4, <4>2, <4>3, OverEntry
    <3>5. QED BY <3>3, <3>4
  <2>4. IsFunction(map) /\ DOMAIN map = DOMAIN shown
    BY <2>2 DEF IsFunction
  <2>5. DOMAIN shown \subseteq Devs
    BY <2>1, MapByCamera DEF IsMap
  <2>6. IsMap(map)
    BY <2>3, <2>4, <2>5 DEF IsMap
  <2>7. QED BY <2>4, <2>6, MapByCamera
<1>7. Collected(edit).cameras = IF page.cameras = Scrap THEN Scrap ELSE map
  BY DEF Collected
<1>8. Collected(edit).cameras \in CameraMaps \cup NoMap
  BY <1>6, <1>7 DEF NoMap
<1>9. Collected(edit) \in Configs
  BY <1>4, <1>5, <1>8 DEF Collected, Configs, IpLists
<1>10. QED BY <1>6, <1>7, <1>9

(* The end of a save, whatever happens to the file.                        *)
LEMMA SaveIs ==
    ASSUME IInv, config' \in Configs, SaveWorks \/ SaveFails
    PROVE  FileIs(file') /\ config_path' \in BOOLEAN /\ SavedInv'
<1>1. CASE SaveWorks
  BY <1>1, ConfigIs DEF SaveWorks, SavedInv, FileIs
<1>2. CASE SaveFails
  <2>1. config_path' \in BOOLEAN
    BY <1>2 DEF SaveFails, IInv, TypeOK
  <2>2. CASE UNCHANGED <<file, saved>>
    BY <2>1, <2>2, PartialByKey DEF IInv, TypeOK, SavedInv, FileIs
  <2>3. CASE file' \in Beginnings(config') /\ saved' = Null
    BY <2>1, <2>3, BeginningsAre DEF SavedInv, FileIs
  <2>4. QED BY <1>2, <2>2, <2>3 DEF SaveFails
<1>3. QED BY <1>1, <1>2

(* A request leaves these as they are, and its config is a good one.       *)
LEMMA RequestInv ==
    ASSUME IInv, Request, config' \in Configs, Complete(config', found'),
           FileIs(file'), SavedInv',
           config_path' \in BOOLEAN, page' \in Configs \cup {Null}, found' \subseteq Devs
    PROVE  IInv'
<1>1. requests' \in 0 .. MaxRequests
  BY InputsAssumption DEF IInv, TypeOK, Request, Step
<1>2. options' = options /\ up' = up
  BY DEF Request, Step
<1>3. file' \in {Null, Garbage} \/ IsPartialConfig(file')
  BY PartialByKey DEF FileIs
<1>4. TypeOK'
  BY <1>1, <1>2, <1>3 DEF IInv, TypeOK, IsPartialConfig
<1>5. QED BY <1>4 DEF IInv, Complete

LEMMA ApplyInv ==
    ASSUME IInv, NEW new, IsPartial(new), Apply(new)
    PROVE  /\ config' \in Configs /\ Complete(config', found)
           /\ config.cameras \in NoMap => config'.cameras \in NoMap
<1>1. config \in Configs /\ Complete(config, found)
  BY DEF IInv, TypeOK
<1>2. PICK part : config' = Applied(part) /\ Sound(part)
  BY <1>1, ApplyIs
<1>3. QED BY <1>1, <1>2, AppliedIs

LEMMA PostInv ==
    ASSUME IInv, NEW new, IsPartial(new), Post(new)
    PROVE  /\ config' \in Configs /\ Complete(config', found)
           /\ config.cameras \in NoMap => config'.cameras \in NoMap
           /\ FileIs(file') /\ config_path' \in BOOLEAN /\ SavedInv'
<1>1. /\ config' \in Configs /\ Complete(config', found)
      /\ config.cameras \in NoMap => config'.cameras \in NoMap
  BY ApplyInv DEF Post
<1>2. CASE Raises(new)
  BY <1>1, <1>2, PartialByKey DEF Post, IInv, TypeOK, SavedInv, FileIs
<1>3. CASE ~Raises(new)
  BY <1>1, <1>3, SaveIs DEF Post
<1>4. QED BY <1>1, <1>2, <1>3

LEMMA FileUnchanged == IInv /\ UNCHANGED <<file, saved>> => FileIs(file') /\ SavedInv'
BY PartialByKey DEF IInv, TypeOK, FileIs, SavedInv

LEMMA StartInv == ASSUME IInv, Start PROVE IInv'
<1> DEFINE content == IF options.config_file THEN file ELSE Empty
<1>1. options \in [config_file : BOOLEAN, discovery_ip : Ips \cup {Null}]
  BY DEF IInv, TypeOK
<1>2. content \notin {Null, Garbage} => WithOptions(Load(content)) \in Configs
  BY <1>1, LoadIs, PartialByKey, WithOptionsIs DEF IInv, TypeOK
<1>3. /\ config' = config \/ (content \notin {Null, Garbage}
                              /\ config' = WithOptions(Load(content)))
      /\ config_path' \in BOOLEAN /\ up' \in BOOLEAN
  BY <1>1 DEF Start, IInv, TypeOK
<1>4. config' \in Configs
  BY <1>2, <1>3 DEF IInv, TypeOK
<1>5. found' = {} /\ Complete(config', found')
  BY DEF Start, Complete
<1>6. requests' \in 0 .. MaxRequests /\ options' = options
  BY InputsAssumption DEF IInv, TypeOK, Start, Step
<1>7. page' = page /\ file' = file /\ saved' = saved
  BY DEF Start
<1>8. TypeOK'
  BY <1>1, <1>3, <1>4, <1>5, <1>6, <1>7 DEF IInv, TypeOK, IsPartialConfig
<1>9. QED BY <1>5, <1>7, <1>8 DEF IInv, SavedInv, Complete

LEMMA InitInv == Init => IInv
<1>1. Init => TypeOK
  <2> SUFFICES ASSUME Init PROVE TypeOK
    OBVIOUS
  <2>1. config \in Configs
    BY DefaultIsConfig DEF Init
  <2>2. file \in {Null, Garbage} \/ IsPartialConfig(file)
    BY InputsAssumption DEF Init
  <2>3. requests \in 0 .. MaxRequests
    BY InputsAssumption DEF Init
  <2>4. config_path \in BOOLEAN /\ up \in BOOLEAN
    BY DEF Init
  <2>5. QED BY <2>1, <2>2, <2>3, <2>4 DEF Init, TypeOK
<1>2. QED BY <1>1 DEF Init, IInv, Complete, SavedInv

LEMMA Invariance == IInv /\ [Next]_vars => IInv'
<1> SUFFICES ASSUME IInv, [Next]_vars PROVE IInv'
  OBVIOUS
<1> USE DEF IInv
<1>0. /\ config \in Configs /\ page \in Configs \cup {Null} /\ found \subseteq Devs
      /\ config_path \in BOOLEAN
  BY DEF TypeOK
<1>1. CASE Start
  BY <1>1, StartInv
<1>2. CASE EditFile
  <2>1. (file' \in {Null, Garbage} \/ IsPartialConfig(file')) /\ saved' = Null
    BY <1>2, InputsAssumption DEF EditFile
  <2>2. requests' \in 0 .. MaxRequests /\ options' = options
    BY <1>2, InputsAssumption DEF TypeOK, EditFile, Step
  <2>3. TypeOK'
    BY <1>2, <2>1, <2>2 DEF EditFile, TypeOK, IsPartialConfig
  <2>4. QED BY <1>2, <2>1, <2>3 DEF EditFile, Complete, SavedInv
<1>3. CASE GetPage
  <2>1. UNCHANGED <<config, config_path, file, found, saved>> /\ page' = config /\ Request
    BY <1>3 DEF GetPage
  <2>2. Complete(config', found')
    BY <2>1 DEF Complete
  <2>3. QED BY <1>0, <2>1, <2>2, FileUnchanged, RequestInv
<1>4. CASE PostPage
  <2>1. page \in Configs
    BY <1>0, <1>4 DEF PostPage
  <2>2. PICK edit \in Edits :
           /\ Post(Collected(edit))
           /\ page' = IF saved' = config' THEN Collected(edit) ELSE page
    BY <1>4 DEF PostPage
  <2>3. Collected(edit) \in Configs /\ IsPartial(Collected(edit))
    BY <2>1, PagesAreParts, ConfigIs
  <2>4. page' \in Configs \cup {Null}
    BY <2>1, <2>2, <2>3
  <2>5. Request /\ found' = found
    BY <1>4 DEF PostPage
  <2>6. QED BY <1>0, <2>2, <2>3, <2>4, <2>5, PostInv, RequestInv
<1>5. CASE PostPart
  <2>1. PICK new \in Posts : Post(new)
    BY <1>5 DEF PostPart
  <2>2. IsPartial(new)
    BY InputsAssumption, PartialByKey
  <2>3. Request /\ found' = found /\ page' = page
    BY <1>5 DEF PostPart
  <2>4. QED BY <1>0, <2>1, <2>2, <2>3, PostInv, RequestInv
<1>6. CASE Reload
  <2>1. Request /\ UNCHANGED <<config_path, file, page, found, saved>>
    BY <1>6 DEF Reload
  <2>2. CASE config' = config
    BY <1>0, <2>1, <2>2, FileUnchanged, RequestInv DEF Complete
  <2>3. CASE config' # config
    <3>1. file \notin {Null, Garbage} /\ Apply(file)
      BY <1>6, <2>3 DEF Reload
    <3>2. IsPartial(file)
      BY <3>1, PartialByKey DEF TypeOK
    <3>3. config' \in Configs /\ Complete(config', found)
      BY <3>1, <3>2, ApplyInv
    <3>4. QED BY <1>0, <2>1, <3>3, FileUnchanged, RequestInv
  <2>4. QED BY <2>2, <2>3
<1>7. CASE SaveCamera
  <2>1. config' = config /\ page' = page /\ found' = found /\ Request
    BY <1>7 DEF SaveCamera
  <2>2. SaveWorks \/ SaveFails
    BY <1>7 DEF SaveCamera
  <2>3. Complete(config', found')
    BY <2>1 DEF Complete
  <2>4. QED BY <1>0, <2>1, <2>2, <2>3, SaveIs, RequestInv
<1>8. ASSUME NEW ip \in Ips, Remember(ip) PROVE IInv'
  <2>1. page' = page /\ found' = found /\ Request /\ (SaveWorks \/ SaveFails)
    BY <1>8 DEF Remember
  <2>2. config' \in Configs /\ config'.cameras = config.cameras
    BY <1>0, <1>8 DEF Remember, Configs
  <2>3. Complete(config', found')
    BY <2>1, <2>2 DEF Complete
  <2>4. QED BY <1>0, <2>1, <2>2, <2>3, SaveIs, RequestInv
<1>9. ASSUME NEW d \in Devs, Rotate(d) \/ Mirror(d) PROVE IInv'
  <2>1. Request /\ HasEntry(d) /\ UNCHANGED <<config_path, file, page, found, saved>>
    BY <1>9 DEF Rotate, Mirror
  <2>2. PICK part \in Entries : config' = SetField(d, part)
    BY <1>0, <1>9, <2>1, FieldOrIs DEF Rotate, Mirror
  <2>3. config' \in Configs /\ Complete(config', found)
    BY <1>0, <2>1, <2>2, FieldSet
  <2>4. QED BY <1>0, <2>1, <2>3, FileUnchanged, RequestInv
<1>10. ASSUME NEW d \in Devs, Discover(d) PROVE IInv'
  <2> DEFINE old == config.cameras
             now == Completed(old, d)
  <2>1. old \in CameraMaps /\ old \notin NoMap /\ EntryIn(old, d) \notin NoMap
    BY <1>0, <1>10, ConfigHas DEF Discover
  <2>2. /\ now \in CameraMaps /\ DOMAIN now = DOMAIN old \cup {d}
        /\ now[d] \in Entries /\ DOMAIN now[d] = Fields
        /\ \A x \in DOMAIN old \ {d} : now[x] = old[x]
    BY <2>1, CompletedIs
  <2>3. config' \in Configs /\ config'.cameras = now
    BY <1>0, <1>10, <2>2, CamerasReplaced DEF Discover
  <2>4. /\ found' = found \cup {d} /\ Request
        /\ UNCHANGED <<config_path, file, page, saved>>
    BY <1>10 DEF Discover
  <2>5. \A x \in found : x \in DOMAIN old /\ old[x] \in Entries /\ DOMAIN old[x] = Fields
    BY <2>1 DEF Complete
  <2>6. Complete(config', found')
    BY <2>2, <2>3, <2>4, <2>5 DEF Complete
  <2>7. QED BY <1>0, <2>3, <2>4, <2>6, FileUnchanged, RequestInv
<1>11. CASE UNCHANGED vars
  BY <1>11 DEF vars, TypeOK, Complete, SavedInv, IsPartialConfig
<1>12. QED
  BY <1>1, <1>2, <1>3, <1>4, <1>5, <1>6, <1>7, <1>8, <1>9, <1>10, <1>11 DEF Next

LEMMA Inductive == Spec => []IInv
<1>1. QED BY InitInv, Invariance, PTL DEF Spec

(* TypeOK: whatever comes from the clients, from the page and from files    *)
(* that were cut off anywhere, the live config has every key, each of its  *)
(* type or null (apply_config, _on_discover).                              *)
THEOREM TypeCorrect == Spec => []TypeOK
<1>1. IInv => TypeOK
  BY DEF IInv
<1>2. QED BY <1>1, Inductive, PTL

(* EntriesComplete: what _handle_rotate and _handle_mirror read of a camera *)
(* that was set up is there, unless `cameras` is no map any more.          *)
THEOREM EntriesStayComplete == Spec => []EntriesComplete
<1>1. IInv => EntriesComplete
  BY MapsAreMaps DEF IInv, Complete, EntriesComplete, HasEntry
<1>2. QED BY <1>1, Inductive, PTL

(* RestartRestores: load_config after save_config gives back what was      *)
(* saved, if nobody has edited the file since (settings.py, cli.py).       *)
THEOREM StartRestores == Spec => RestartRestores
<1>1. ASSUME IInv, Start, options.config_file, saved # Null
      PROVE  /\ up' <=> saved.logging \notin NoMap
             /\ up' => config' = WithOptions(saved)
  <2>1. file = saved /\ file \in Configs /\ file \notin {Null, Garbage}
    BY <1>1, InputsAssumption DEF IInv, SavedInv
  <2>2. Load(file) = saved
    BY <2>1, LoadIs
  <2>3. QED BY <1>1, <2>1, <2>2 DEF Start
<1>2. IInv /\ [Next]_vars =>
        [Start /\ options.config_file /\ saved # Null
           => /\ up' <=> saved.logging \notin NoMap
              /\ up' => config' = WithOptions(saved)]_vars
  BY <1>1
<1>3. QED BY <1>2, Inductive, PTL DEF Spec, RestartRestores

(* NullStays: no request brings back the entries of `cameras` once it is   *)
(* null; apply_config overlays nothing on it (settings.py).                *)
LEMMA NullStep ==
    ASSUME IInv, Next, config.cameras \in NoMap, ~Start
    PROVE  config'.cameras \in NoMap
<1>1. config \in Configs
  BY DEF IInv, TypeOK
<1>2. CASE PostPage
  <2>1. page \in Configs
    BY <1>2 DEF PostPage, IInv, TypeOK
  <2>2. PICK edit \in Edits : Post(Collected(edit))
    BY <1>2 DEF PostPage
  <2>3. QED BY <2>1, <2>2, PagesAreParts, ConfigIs, PostInv
<1>3. CASE PostPart
  BY <1>3, PostInv, PartialByKey, InputsAssumption DEF PostPart
<1>4. CASE Reload
  BY <1>4, ApplyInv, PartialByKey DEF Reload, IInv, TypeOK
<1>5. CASE EditFile \/ GetPage \/ SaveCamera
  BY <1>5 DEF EditFile, GetPage, SaveCamera
<1>6. ASSUME NEW ip \in Ips, Remember(ip) PROVE config'.cameras \in NoMap
  BY <1>1, <1>6 DEF Remember, Configs
<1>7. ASSUME NEW d \in Devs PROVE ~(Rotate(d) \/ Mirror(d) \/ Discover(d))
  BY DEF Rotate, Mirror, Discover, HasEntry
<1>8. QED BY <1>2, <1>3, <1>4, <1>5, <1>6, <1>7 DEF Next

THEOREM NullIsForGood == Spec => NullStays
<1>1. IInv /\ [Next]_vars =>
        [config.cameras \in NoMap /\ up /\ ~Start => config'.cameras \in NoMap]_vars
  BY NullStep
<1>2. QED BY <1>1, Inductive, PTL DEF Spec, NullStays

(* DiscoveredSurvivesPage: saving the settings page, however old, takes no  *)
(* camera and no field of one away, and leaves the entries alone that its  *)
(* copy of the config does not have (apply_config, collect of config.html).*)
LEMMA PageStep ==
    ASSUME IInv, PostPage, config.cameras \notin NoMap, config'.cameras \notin NoMap,
           NEW d \in DOMAIN config.cameras
    PROVE  /\ d \in DOMAIN config'.cameras
           /\ HasEntry(d) => DOMAIN config.cameras[d] \subseteq DOMAIN config'.cameras[d]
           /\ d \notin DOMAIN Filled(page.cameras)
                => config'.cameras[d] = config.cameras[d]
<1>1. page \in Configs /\ config \in Configs
  BY DEF PostPage, IInv, TypeOK
<1>2. PICK edit \in Edits : Post(Collected(edit))
  BY DEF PostPage
<1> DEFINE new == Collected(edit)
           old == config.cameras
<1>3. IsPartial(new) /\ Apply(new)
  BY <1>1, <1>2, PagesAreParts, ConfigIs DEF Post
<1>4. PICK part : /\ config' = Applied(part) /\ Sound(part)
                  /\ "cameras" \in DOMAIN part =>
                       part.cameras = new.cameras
                       \/ /\ new.cameras \in CameraMaps
                          /\ part.cameras \in CameraMaps
                          /\ DOMAIN part.cameras \subseteq DOMAIN new.cameras
  BY <1>1, <1>3, ApplyIs
<1>5. config'.cameras = IF "cameras" \in DOMAIN part
                        THEN MergedCameras(part.cameras, old) ELSE old
  BY <1>1, <1>4, AppliedIs
<1>6. CASE "cameras" \notin DOMAIN part
  BY <1>5, <1>6 DEF HasEntry
<1>7. CASE "cameras" \in DOMAIN part
  <2>1. part.cameras \notin NoMap
    BY <1>5, <1>7 DEF MergedCameras
  <2>2. page.cameras # Scrap
    BY <1>1, <1>4, <1>7, <2>1, PagesAreParts, MapsAreMaps
  <2>3. /\ part.cameras \in CameraMaps
        /\ DOMAIN part.cameras \subseteq DOMAIN Filled(page.cameras)
    BY <1>1, <1>4, <1>7, <2>2, PagesAreParts
  <2>4. old \in CameraMaps /\ Fits(part.cameras, old)
    BY <1>1, <1>4, <1>7, <2>1, ConfigHas DEF Sound
  <2>5. HasEntry(d) => old[d] \in Entries
    BY <1>1, HasEntryIs
  <2>6. QED BY <1>5, <1>7, <2>3, <2>4, <2>5, MergedIs
<1>8. QED BY <1>6, <1>7

THEOREM PageLosesNothing == Spec => DiscoveredSurvivesPage
<1>1. IInv /\ [Next]_vars =>
        [PostPage /\ NoMap \cap {config.cameras, config'.cameras} = {}
           => \A d \in DOMAIN config.cameras :
                /\ d \in DOMAIN config'.cameras
                /\ HasEntry(d)
                     => DOMAIN config.cameras[d] \subseteq DOMAIN config'.cameras[d]
                /\ d \notin DOMAIN Filled(page.cameras)
                     => config'.cameras[d] = config.cameras[d]]_vars
  BY PageStep
<1>2. QED BY <1>1, Inductive, PTL DEF Spec, DiscoveredSurvivesPage
=============================================================================
