----------------------------- MODULE PluginConfig -----------------------------
(***************************************************************************)
(* plugins.json: the list of enabled plugins and the settings of each,     *)
(* behind two caches that are valid as long as the file's mtime stays.     *)
(* settings.py keeps the list, config.py the whole file.  Each call is     *)
(* synchronous, so one action.                                             *)
(*                                                                         *)
(* A cache is empty or holds one value, the one read at the present mtime: *)
(* a write that moves the mtime empties both.  A write within one tick of  *)
(* the file system's clock does not, which is why the writers invalidate.  *)
(***************************************************************************)
CONSTANTS
    Lists,      \* lists of plugins that may be enabled
    Default,    \* DEFAULT_ENABLED
    Owners,     \* plugins that have settings
    Keys,       \* values of the setting `api_key'
    NoKey,      \* the setting is absent or empty
    Mask        \* what the panel shows, and sends back, for a stored key

ASSUME ConfigAssumption ==
    Default \in Lists /\ NoKey \notin Keys /\ Mask \notin Keys \cup {NoKey}

VARIABLES
    file,           \* what plugins.json says
    text,           \* as what its bytes can be read
    hiccup,         \* do stat and read fail (OSError) for the moment?
    enabledCache,   \* settings._cached_enabled
    rawCache,       \* config._cached_raw
    failed          \* history: the result of a failed read was cached

cvars == <<file, text, hiccup, enabledCache, rawCache, failed>>

Content == [enabled : Lists, settings : [Owners -> Keys \cup {NoKey}]]

\* An empty dict, or a file that does not exist yet.
Nothing == [enabled |-> Default, settings |-> [o \in Owners |-> NoKey]]

\* "broken" is no JSON; "garbled" is no UTF-8, which no `except' names.
ConfigTypeOK ==
    /\ file \in Content
    /\ text \in {"json", "broken", "garbled"}
    /\ hiccup \in BOOLEAN
    /\ enabledCache \in {{}} \cup {{l} : l \in Lists}
    /\ rawCache \in {{}} \cup {{c} : c \in Content}
    /\ failed \in BOOLEAN

ConfigInit ==
    /\ file = Nothing /\ text = "json" /\ hiccup = FALSE
    /\ enabledCache = {} /\ rawCache = {} /\ failed = FALSE

-----------------------------------------------------------------------------
(* Reading.                                                                *)

Fails == hiccup \/ text = "broken"
Raises == ~hiccup /\ text = "garbled"

\* json.loads(read_text()), when it does not raise UnicodeDecodeError.
Parsed == IF Fails THEN Nothing ELSE file

\* Both loaders: the stat fails, the cache is valid, or the file is read, and
\* what is returned for a file that cannot be read is cached as well.
Load(cache, whenEmpty, read, value) ==
    \/ hiccup /\ value = whenEmpty /\ failed' = failed /\ cache' = cache
    \/ value \in cache /\ failed' = failed /\ cache' = cache
    \/ /\ cache = {} /\ ~Raises
       /\ value = read
       /\ cache' = {value} /\ failed' = (failed \/ Fails)

LoadEnabledIds(list) ==
    /\ Load(enabledCache, Default, Parsed.enabled, list)
    /\ UNCHANGED <<file, text, hiccup, rawCache>>

LoadRaw(data) ==
    /\ Load(rawCache, Nothing, Parsed, data)
    /\ UNCHANGED <<file, text, hiccup, enabledCache>>

\* A loader that raises: _ensure_file looks for the file outside any `try', and
\* so does, of text that is no UTF-8, the read itself.
LoadEnabledRaises == (hiccup \/ (enabledCache = {} /\ Raises)) /\ UNCHANGED cvars
LoadRawRaises == (hiccup \/ (rawCache = {} /\ Raises)) /\ UNCHANGED cvars

-----------------------------------------------------------------------------
(* Writing.                                                                *)

\* Variant: only the cache of settings.py, and the mtime may not have moved.
InvalidateOwn == enabledCache' = {} /\ rawCache' \in {rawCache, {}}

\* invalidate_plugin_settings_cache, which calls the one of config.py.
Invalidate == enabledCache' = {} /\ rawCache' = {}

Write(data) ==
    /\ file' = data /\ text' = "json" /\ failed' = FALSE
    /\ Invalidate
    /\ hiccup' = hiccup

\* Variant: the list is written without the rest of the file.
SaveEnabledOnly(list) == Write([Nothing EXCEPT !.enabled = list])

\* save_enabled_ids reads the file itself, past the cache.
SaveEnabledIds(list) ==
    /\ ~Raises
    /\ Write([Parsed EXCEPT !.enabled = list])

\* Variant: what the panel sends back is stored as it is.
MergedAsSent(current, patch) == patch

\* prepare_settings_patch: an empty or masked key keeps the stored one.
Merged(current, patch) == IF patch \in Keys THEN patch ELSE current

\* save_plugin_settings starts from what _load_raw returns, cached or read.
SavePluginSettings(o, patch) ==
    \E data \in rawCache \cup (IF rawCache = {} /\ ~Raises THEN {Parsed} ELSE {})
                \cup (IF hiccup THEN {Nothing} ELSE {}) :
        Write([data EXCEPT !.settings[o] = Merged(data.settings[o], patch)])

\* The file edited by hand, one thing at a time; the edit moves its mtime.
HandEdit ==
    /\ \/ text' = "json" /\ \E l \in Lists : file' = [file EXCEPT !.enabled = l]
       \/ text' \in {"broken", "garbled"} /\ file' = file
    /\ enabledCache' = {} /\ rawCache' = {} /\ failed' = FALSE
    /\ hiccup' = hiccup

\* A shortage of descriptors, a scanner that holds the file, and their end.
Hiccup ==
    /\ hiccup' = ~hiccup
    /\ UNCHANGED <<file, text, enabledCache, rawCache, failed>>

\* The handlers of the panel.
Panel ==
    \/ \E l \in Lists : LoadEnabledIds(l) \/ SaveEnabledIds(l)
    \/ \E c \in {file, Nothing} \cup rawCache : LoadRaw(c)
    \/ \E o \in Owners, patch \in Keys \cup {Mask} : SavePluginSettings(o, patch)

ConfigNext == Panel \/ HandEdit \/ Hiccup

-----------------------------------------------------------------------------

\* A cached value is what the file says, unless reading it failed: a list
\* saved in the panel rules the next batch (settings.py:4, config.py:4).
CachesAgree ==
    ~failed => enabledCache \subseteq {file.enabled} /\ rawCache \subseteq {file}

\* The list, or the settings of one plugin.
OneThingChanges ==
    \/ file'.settings = file.settings
    \/ /\ file'.enabled = file.enabled
       /\ \E o \in Owners : \A p \in Owners \ {o} : file'.settings[p] = file.settings[p]

\* A write changes the section it is for and keeps the rest, unless reading
\* failed: save_enabled_ids keeps the settings, save_plugin_settings keeps the
\* list and the other plugins' settings.
SavesKeepTheRest ==
    [][text = "json" /\ ~hiccup /\ ~failed => OneThingChanges]_cvars

\* settings.py:79, config.py:106: the same, of any file that is valid JSON
\* and can be read when it is written.
SavesKeepReadable ==
    [][text = "json" /\ ~hiccup => OneThingChanges]_cvars
=============================================================================
