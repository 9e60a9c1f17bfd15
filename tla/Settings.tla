------------------------------ MODULE Settings ------------------------------
(***************************************************************************)
(* The configuration of the HTTP server: the live `config` of              *)
(* cam_reverse/settings.py, the file behind it, and every request of        *)
(* http_server.py that reads or writes either.  A config is a function of  *)
(* its keys, as the dict is; a file's may lack keys.  `cameras` is a        *)
(* function of device ids to entries, each a function of the fields it     *)
(* has, and `logging` stands for both sections that hold a map of plain    *)
(* values, http_server too.  Where a map belongs there may be a null or a  *)
(* piece of a word instead: YAML reads both in a file that was cut off.    *)
(* An action is one request, one discovery or one start; none of the       *)
(* handlers awaits between its read and its write.                         *)
(***************************************************************************)
EXTENDS Integers, Functions

CONSTANTS
    Devs,        \* device ids of the cameras
    Levels,      \* log levels
    Ips,         \* addresses a discovery probe may go to
    Null,        \* None, or a YAML null
    Scrap,       \* a piece of a word where a map belongs
    Garbage,     \* a file that cannot be read as a config
    Files,       \* configs a user writes into the file by hand
    Posts,       \* configs a client posts that does not use the page
    Edits,       \* what a user changes in the form of the page
    MaxRequests  \* bound: requests, discoveries and starts

(* What a dict is when it is updated with another, or merged over it.       *)
Over(new, old) ==
    [k \in DOMAIN new \cup DOMAIN old |-> IF k \in DOMAIN new THEN new[k] ELSE old[k]]
Empty == [k \in {} |-> k]

Fields == {"rotate", "mirror"}
DefaultEntry == [rotate |-> 0, mirror |-> FALSE]
Default == [logging |-> CHOOSE l \in Levels : TRUE,
            cameras |-> Empty,
            discovery_ips |-> {CHOOSE i \in Ips : TRUE}]

(* An entry lacks any of its fields, a file or a post any of the keys.      *)
NoMap == {Null, Scrap}
FullEntries == [rotate : 0 .. 3 \cup {Null}, mirror : BOOLEAN \cup {Null}]
Entries == {Restrict(e, K) : e \in FullEntries, K \in SUBSET Fields}
CameraMaps == UNION {[D -> Entries \cup NoMap] : D \in SUBSET Devs}
Keys == DOMAIN Default
Configs == [logging : Levels \cup NoMap, cameras : CameraMaps \cup NoMap,
            discovery_ips : {Null} \cup SUBSET (Ips \cup {Null})]
IsPartialConfig(c) == DOMAIN c \subseteq Keys /\ Over(c, Default) \in Configs
FormEntries == {Restrict(e, K) : e \in [rotate : 0 .. 3, mirror : BOOLEAN], K \in SUBSET Fields}

(* The values in files and posts have the types the code expects, or are    *)
(* missing; it does not look at them.  An edit gives no null: there a Null  *)
(* is what the user leaves as the form shows it.                           *)
ASSUME InputsAssumption ==
    /\ Levels # {} /\ Ips # {} /\ MaxRequests \in Nat
    /\ \A c \in Posts \cup (Files \ {Garbage}) : IsPartialConfig(c)
    /\ Edits \subseteq [logging : Levels \cup {Null}, cameras : [Devs -> FormEntries],
                        discovery_ips : {Null} \cup SUBSET Ips]
    /\ Garbage \notin Configs /\ NoMap \cap (Entries \cup CameraMaps) = {}

VARIABLES
    config,      \* settings.config
    config_path, \* settings.config_path is not None
    file,        \* the file's content; Null when there is no file
    options,     \* --config_file is given, and --discovery_ip or Null
    up,          \* the server is running
    page,        \* the copy of the config the settings page holds, or Null
    found,       \* history: the cameras whose discovery ended well, this start
    saved,       \* history: the config last saved whole, Null once the file
                 \* was cut off or edited since
    requests     \* bound counter

vars == <<config, config_path, file, options, up, page, found, saved, requests>>

(* One step more; the rest of the state is left to the action.              *)
Step == requests < MaxRequests /\ requests' = requests + 1 /\ UNCHANGED options
Request == Step /\ up /\ UNCHANGED up

-----------------------------------------------------------------------------
(* Starting: main loads the file, if it is named, over the defaults, and   *)
(* lays the options over that.  A file it cannot read ends the program, and *)
(* so does one whose logging or http_server section is no map.             *)

LoadUnderDefaults(content) == Over(Default, content)
Load(content) == Over(content, Default)

WithOptions(c) ==
    IF options.discovery_ip = Null THEN c
    ELSE [c EXCEPT !.discovery_ips = {options.discovery_ip}]

Start ==
    /\ Step
    /\ page' = page /\ found' = {} /\ UNCHANGED <<file, saved>>
    /\ LET content == IF options.config_file THEN file ELSE Empty
       IN  IF content \in {Null, Garbage} \/ Load(content).logging \in NoMap
           THEN up' = FALSE /\ UNCHANGED <<config, config_path>>
           ELSE /\ up' = TRUE /\ config_path' = options.config_file
                /\ config' = WithOptions(Load(content))

(* The user changes the file while the server is running or down.          *)
EditFile ==
    /\ Step
    /\ file' \in Files /\ saved' = Null
    /\ UNCHANGED <<config, config_path, up, page, found>>

-----------------------------------------------------------------------------
(* apply_config goes through the keys in their order: the entries of a map  *)
(* of cameras are overlaid field by field, any other value is replaced.    *)

AppliedWhole(new) == Over(new, config)

Filled(map) == IF map = Null THEN Empty ELSE map
EntryIn(cameras, d) == IF d \in DOMAIN cameras THEN cameras[d] ELSE Empty
OverEntries(new, old) == [d \in DOMAIN new |-> Over(Filled(new[d]), EntryIn(old, d))]

Replaced(new, old) ==
    IF new \in NoMap THEN new ELSE IF old \in NoMap THEN old ELSE Over(new, old)
Rebuilt(new, old) ==
    IF new \in NoMap THEN new
    ELSE IF old \in NoMap THEN old
    ELSE Over(OverEntries(new, old), [d \in DOMAIN old |-> DefaultEntry])
MergedCameras(new, old) ==
    IF new \in NoMap THEN new
    ELSE IF old \in NoMap THEN old
    ELSE Over(OverEntries(new, old), old)

Applied(new) ==
    Over([k \in DOMAIN new |->
             IF k = "cameras" THEN MergedCameras(new[k], config[k]) ELSE new[k]],
         config)

(* An entry that is no map raises, in the live config or, but for a null,   *)
(* in the new one; so does the first entry over a `cameras` that is none.  *)
Broken(new) ==
    IF config.cameras \in NoMap THEN DOMAIN new.cameras
    ELSE {d \in DOMAIN new.cameras :
            new.cameras[d] = Scrap \/ EntryIn(config.cameras, d) \in NoMap}

Raises(new) ==
    "cameras" \in DOMAIN new /\ new.cameras \notin NoMap /\ Broken(new) # {}

(* What is applied before it raises: the keys before `cameras`, and the     *)
(* entries before the broken one.                                          *)
PartsBefore(new) ==
    {Over([cameras |-> Restrict(new.cameras, D)], Restrict(new, K)) :
        D \in SUBSET (DOMAIN new.cameras \ Broken(new)),
        K \in SUBSET (DOMAIN new \ {"cameras"})}

Apply(new) ==
    IF Raises(new) THEN \E part \in PartsBefore(new) : config' = Applied(part)
    ELSE config' = Applied(new)

(* save_config: the file is truncated, then the config is dumped key by    *)
(* key.  Opening it may fail, and so may writing; what is left then is a   *)
(* beginning of the dump.  A cut may fall anywhere: between two keys, after *)
(* a colon, which leaves a null, or in a word, which leaves a scrap of a   *)
(* map, and of a value another one ("fals" is a string, and true).  The     *)
(* last request of a behaviour leaves none: nobody would read it.          *)

CutValues(f) == IF f = "mirror" THEN {Null, TRUE} ELSE {Null}
CutField(e, f) ==
    {Over([x \in {f} |-> v], Restrict(e, K)) : v \in CutValues(f), K \in SUBSET DOMAIN e}
CutEntry(e) ==
    IF e \in NoMap THEN NoMap
    ELSE NoMap \cup {e} \cup {Restrict(e, K) : K \in (SUBSET DOMAIN e) \ {{}}}
         \cup UNION {CutField(e, f) : f \in DOMAIN e}

CutCamera(m, d) ==
    {Over([x \in {d} |-> e], Restrict(m, D)) : e \in CutEntry(m[d]), D \in SUBSET DOMAIN m}
CutMap(m) ==
    IF m \in NoMap THEN NoMap ELSE NoMap \cup UNION {CutCamera(m, d) : d \in DOMAIN m}

CutIps(ips) ==
    {Null} \cup IF ips = Null THEN {}
               ELSE {(ips \ gone) \cup last : gone \in SUBSET ips,
                                            last \in {{}} \cup {{i} : i \in Ips \cup {Null}}}

Beginnings(c) ==
    {Garbage, Empty} \cup {[logging |-> l] : l \in Levels \cup NoMap}
    \cup {[logging |-> c.logging, cameras |-> m] : m \in CutMap(c.cameras)}
    \cup {[c EXCEPT !.discovery_ips = ips] : ips \in CutIps(c.discovery_ips)}

SaveWorks ==
    /\ file' = config' /\ config_path' = TRUE /\ saved' = config'

SaveFails ==
    /\ config_path' = config_path
    /\ \/ UNCHANGED <<file, saved>>
       \/ /\ requests' < MaxRequests
          /\ file' \in Beginnings(config') /\ saved' = Null

-----------------------------------------------------------------------------
(* The requests.                                                           *)

(* GET /api/config, by the settings page.                                  *)
GetPage ==
    /\ Request /\ page' = config
    /\ UNCHANGED <<config, config_path, file, found, saved>>

(* POST /api/config: the config the client sent is applied, and then saved *)
(* unless applying it raised.                                              *)
Post(new) ==
    /\ Apply(new)
    /\ IF Raises(new) THEN UNCHANGED <<config_path, file, saved>>
       ELSE SaveWorks \/ SaveFails

(* collect() of the page: its copy of the config, and over it what the form *)
(* shows or the user made of that.  The form shows every field of every    *)
(* camera, so it adds those the copy lacks; it turns a null into {}, but   *)
(* cannot set a field of a scrap.                                          *)
ShownEntry(e) ==
    [rotate |-> IF "rotate" \in DOMAIN e /\ e["rotate"] # Null THEN e["rotate"] ELSE 0,
     mirror |-> "mirror" \in DOMAIN e /\ e["mirror"] = TRUE]

ShownConfig ==
    [logging |-> IF page.logging = Null THEN Default.logging ELSE page.logging,
     cameras |-> IF page.cameras = Scrap THEN Scrap
                 ELSE [d \in DOMAIN Filled(page.cameras) |->
                         IF page.cameras[d] = Scrap THEN Scrap
                         ELSE ShownEntry(Filled(page.cameras[d]))],
     discovery_ips |-> IF page.discovery_ips = Null THEN {} ELSE page.discovery_ips \ {Null}]

Collected(edit) ==
    [logging |-> IF edit.logging = Null \/ page.logging = Scrap THEN ShownConfig.logging
                 ELSE edit.logging,
     cameras |-> IF page.cameras = Scrap THEN Scrap
                 ELSE [d \in DOMAIN ShownConfig.cameras |->
                         IF page.cameras[d] = Scrap THEN Scrap
                         ELSE Over(edit.cameras[d], ShownConfig.cameras[d])],
     discovery_ips |-> IF edit.discovery_ips = Null THEN ShownConfig.discovery_ips
                       ELSE edit.discovery_ips]

PostPage ==
    /\ Request /\ page # Null
    /\ \E edit \in Edits :
          /\ Post(Collected(edit))
          /\ page' = IF saved' = config' THEN Collected(edit) ELSE page
    /\ UNCHANGED found

PostPart ==
    /\ Request
    /\ \E new \in Posts : Post(new)
    /\ UNCHANGED <<page, found>>

(* POST /api/config/reload: without a file to read nothing happens, and a  *)
(* file that cannot be read changes nothing.                               *)
Reload ==
    /\ Request
    /\ IF ~config_path \/ file \in {Null, Garbage} THEN UNCHANGED config ELSE Apply(file)
    /\ UNCHANGED <<config_path, file, page, found, saved>>

(* POST /api/cameras/{devId}/save, of a camera that has an entry; a scrap   *)
(* may be the camera's whole id, and contain it as well.                   *)
SaveCamera ==
    /\ Request /\ config.cameras \notin {Null, Empty}
    /\ UNCHANGED <<config, page, found>>
    /\ SaveWorks \/ SaveFails

(* POST /api/discover with "remember": an address that is not in the list  *)
(* is appended and the config is saved; of one that is, nothing is.  On a   *)
(* null this raises.                                                       *)
Remember(ip) ==
    /\ Request /\ config.discovery_ips # Null /\ ip \notin config.discovery_ips
    /\ config' = [config EXCEPT !.discovery_ips = @ \cup {ip}]
    /\ SaveWorks \/ SaveFails
    /\ UNCHANGED <<page, found>>

SetField(d, part) == [config EXCEPT !.cameras[d] = Over(part, @)]

(* The entry of a camera, as far as dict.get can tell.                     *)
FieldOr(d, f, v) ==
    LET entry == config.cameras[d] IN IF f \in DOMAIN entry THEN entry[f] ELSE v

HasEntry(d) ==
    /\ config.cameras \notin NoMap /\ d \in DOMAIN config.cameras
    /\ config.cameras[d] \notin NoMap

Further(r) == r + 1
Turned(r) == (r + 1) % 4

(* GET /rotate/{devId} and /mirror/{devId}: on a camera without an entry,   *)
(* and on a rotation that is null, they raise.                             *)
Rotate(d) ==
    /\ Request /\ HasEntry(d) /\ FieldOr(d, "rotate", 0) # Null
    /\ config' = SetField(d, [rotate |-> Turned(FieldOr(d, "rotate", 0))])
    /\ UNCHANGED <<config_path, file, page, found, saved>>

Mirror(d) ==
    /\ Request /\ HasEntry(d)
    /\ config' = SetField(d, [mirror |-> ~(FieldOr(d, "mirror", FALSE) = TRUE)])
    /\ UNCHANGED <<config_path, file, page, found, saved>>

(* _on_discover: the camera's entry gets the defaults of the fields it     *)
(* lacks.  On a `cameras` or an entry that is no map this raises.           *)
Completed(cameras, d) ==
    Over([x \in {d} |-> Over(EntryIn(cameras, d), DefaultEntry)], cameras)

Discover(d) ==
    /\ Request
    /\ config.cameras \notin NoMap /\ EntryIn(config.cameras, d) \notin NoMap
    /\ config' = [config EXCEPT !.cameras = Completed(@, d)]
    /\ found' = found \cup {d}
    /\ UNCHANGED <<config_path, file, page, saved>>

-----------------------------------------------------------------------------
Init ==
    /\ config = Default /\ config_path = FALSE
    /\ file \in Files \cup {Null}
    /\ options \in [config_file : BOOLEAN, discovery_ip : Ips \cup {Null}]
    /\ up = FALSE /\ page = Null
    /\ found = {} /\ saved = Null /\ requests = 0

Next ==
    \/ Start \/ EditFile \/ GetPage \/ PostPage \/ PostPart \/ Reload \/ SaveCamera
    \/ \E ip \in Ips : Remember(ip)
    \/ \E d \in Devs : Rotate(d) \/ Mirror(d) \/ Discover(d)

Spec == Init /\ [][Next]_vars

-----------------------------------------------------------------------------
(* Types: the live config has every key, a camera's rotation is one of the *)
(* four the EXIF tag is chosen from or null, and every field has its type  *)
(* or is null, from whichever of the defaults, the file, what a failed     *)
(* write left of it, the page and the other clients the value came.        *)
TypeOK ==
    /\ config \in Configs /\ (file \in {Null, Garbage} \/ IsPartialConfig(file))
    /\ page \in Configs \cup {Null}
    /\ options \in [config_file : BOOLEAN, discovery_ip : Ips \cup {Null}]
    /\ config_path \in BOOLEAN /\ up \in BOOLEAN
    /\ found \subseteq Devs /\ requests \in 0 .. MaxRequests

(* A camera the server has set up keeps a complete entry, whatever partial *)
(* config is posted or reloaded after that, a file that was cut off as well *)
(* (http_server.py:284 and :352 read it without a default): only a         *)
(* `cameras` that is no map takes it away.                                 *)
EntriesComplete ==
    config.cameras \notin NoMap =>
        \A d \in found : HasEntry(d) /\ DOMAIN config.cameras[d] = Fields

(* After a save that ended well a server that is started with that file    *)
(* comes up with the config that was saved, but for the addresses an       *)
(* option replaces; but it does not come up on a section that is null.     *)
RestartRestores ==
    [][Start /\ options.config_file /\ saved # Null
       => /\ up' <=> saved.logging \notin NoMap
          /\ up' => config' = WithOptions(saved)]_vars

(* Once `cameras` is null no request of any kind brings the entries back:  *)
(* apply_config replaces a map by null but overlays nothing on a null, so  *)
(* posting or reloading a repaired config does not help, only a new start. *)
NullStays ==
    [][config.cameras \in NoMap /\ up /\ ~Start => config'.cameras \in NoMap]_vars

(* Settings page: "Save" on a page of any age takes no camera and no field  *)
(* of a camera away, and leaves the entries alone that were discovered     *)
(* after its copy was loaded (settings.py:49).  It promises no more: the   *)
(* fields and the addresses it shows replace the live ones, whoever has    *)
(* changed those since.                                                    *)
DiscoveredSurvivesPage ==
    [][PostPage /\ NoMap \cap {config.cameras, config'.cameras} = {}
       => \A d \in DOMAIN config.cameras :
             /\ d \in DOMAIN config'.cameras
             /\ HasEntry(d) => DOMAIN config.cameras[d] \subseteq DOMAIN config'.cameras[d]
             /\ d \notin DOMAIN Filled(page.cameras)
                => config'.cameras[d] = config.cameras[d]]_vars
=============================================================================
