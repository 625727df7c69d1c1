------------------------------ MODULE AppMemory ------------------------------
(* What the desktop application remembers for its agent (app/src-tauri/src/          *)
(* memory_engine.rs, skill_engine.rs, the memory tables of db.rs): the curated        *)
(* memory and the user profile, written by the agent's tool within a size limit and    *)
(* by the user without one; the memory a chat is shown, frozen at its first turn;       *)
(* and skills with the history of their improvements. Commands run one at a time.       *)
(* Entries bound to a chat are read anew every time and left out.                       *)
EXTENDS Integers, Sequences, FiniteSetsExt

CONSTANTS Targets,    \* of {"memory", "user"}: the curated memory, the user profile
          Texts,      \* normalised texts, numbers; a text's number is its length
          Blocked,    \* texts the safety scan rejects
          Keys,       \* keys of entries, numbers from 1 on
          Limits,     \* [memory, user]: MEMORY_CHAR_LIMIT, USER_CHAR_LIMIT
          Gap,        \* characters between two entries
          Threads,    \* chats
          Skills,     \* skills, by name
          MaxOps, MaxCrashes   \* bounds

VARIABLES entry,      \* memory_entries (agent, curated) and user_profile: [text, raw, sure]
          doubled,    \* targets in which a replacement, or the user, repeated a text
          byUser,     \* targets the user wrote to
          thread,     \* chat_threads: [saved, frozen, snapshot]
          shown,      \* what a saved chat was shown
          skill,      \* skills: [live, prompt, version]
          history,    \* skill_improvements, by skill
          edited,     \* skills written again under their name
          torn,       \* skills whose improvement was cut short
          ops, crashes

stores == <<entry, doubled, byUser>>
skills == <<skill, history, edited, torn>>
vars == <<stores, thread, shown, skills, ops, crashes>>

NoEntry == [text |-> 0, raw |-> FALSE, sure |-> FALSE]
Entry(text, raw, sure) == [text |-> text, raw |-> raw, sure |-> sure]
Nothing == [t \in Targets |-> [k \in Keys |-> NoEntry]]
NoThread == [saved |-> FALSE, frozen |-> FALSE, snapshot |-> Nothing]
NoSkill == [live |-> FALSE, prompt |-> 0, version |-> 1]

Init ==
    /\ entry = Nothing
    /\ doubled = {} /\ byUser = {}
    /\ thread = [t \in Threads |-> NoThread] /\ shown = [t \in Threads |-> {}]
    /\ skill = [s \in Skills |-> NoSkill] /\ history = [s \in Skills |-> <<>>]
    /\ edited = {} /\ torn = {}
    /\ ops = 0 /\ crashes = 0

Op == ops < MaxOps /\ ops' = ops + 1
Others == UNCHANGED <<thread, shown, skills, crashes>>

-----------------------------------------------------------------------------
(* validate_memory_content, usage_chars, find_unique_match: a needle is looked for in   *)
(* the stored text, which is normalised only if the tool wrote it.                      *)
Valid(text) == text \notin Blocked

Used(store) == {k \in Keys : store[k] # NoEntry}
usage_chars(store) ==
    MapThenSumSet(LAMBDA k : store[k].text, Used(store))
        + (IF Used(store) = {} THEN 0 ELSE Gap * (Cardinality(Used(store)) - 1))

Fits_old(target, store, new) == usage_chars(store) <= Limits[target]
Fits(target, store, new) == usage_chars(new) <= Limits[target]

Matches(store, needle) == {k \in Used(store) : store[k].text = needle /\ ~store[k].raw}

Duplicate_never(store, text) == FALSE
Duplicate(store, text) == \E k \in Used(store) : store[k].text = text

Repeats(store) == \E j, k \in Used(store) : j # k /\ store[j].text = store[k].text

(* mutate_curated_memory: a refused mutation leaves everything as it was.                *)
mutate_add(target, text) ==
    /\ Op
    /\ \E k \in Keys :
        LET new == [entry[target] EXCEPT ![k] = Entry(text, FALSE, TRUE)] IN
        /\ entry[target][k] = NoEntry
        /\ IF Valid(text) /\ ~Duplicate(entry[target], text) /\ Fits(target, entry[target], new)
           THEN entry' = [entry EXCEPT ![target] = new]
           ELSE UNCHANGED entry
    /\ UNCHANGED <<doubled, byUser>>
    /\ Others

(* The new text may be one that another entry has already.                               *)
mutate_replace(target, needle, text) ==
    /\ Op
    /\ \E k \in Keys :
        LET new == [entry[target] EXCEPT ![k].text = text, ![k].raw = FALSE] IN
        /\ Matches(entry[target], needle) = {k}
        /\ Valid(text)
        /\ Fits(target, entry[target], new)
        /\ entry' = [entry EXCEPT ![target] = new]
        /\ doubled' = IF Repeats(new) THEN doubled \union {target} ELSE doubled
    /\ UNCHANGED byUser
    /\ Others

mutate_remove(target, needle) ==
    /\ Op
    /\ \E k \in Keys :
        /\ Matches(entry[target], needle) = {k}
        /\ entry' = [entry EXCEPT ![target][k] = NoEntry]
    /\ UNCHANGED <<doubled, byUser>>
    /\ Others

-----------------------------------------------------------------------------
(* memory_upsert, user_profile_upsert: neither scanned nor limited. An entry of the       *)
(* memory that has the text already is left alone, its confidence too.                    *)
upsert(target, k, text, raw, sure) ==
    LET new == [entry EXCEPT ![target][k] = Entry(text, raw, sure)] IN
    /\ Op
    /\ entry' = IF target = "memory" /\ entry[target][k].text = text THEN entry ELSE new
    /\ byUser' = byUser \union {target}
    /\ doubled' = IF Repeats(entry'[target]) THEN doubled \union {target} ELSE doubled
    /\ Others

delete_entry(target, k) ==
    /\ Op
    /\ entry' = [entry EXCEPT ![target][k] = NoEntry]
    /\ UNCHANGED <<doubled, byUser>>
    /\ Others

Compacted(store) == [k \in Keys |-> IF store[k].sure THEN store[k] ELSE NoEntry]

(* compact_low_confidence: of the memory, one entry after the other.                       *)
memory_compact ==
    /\ Op
    /\ "memory" \in Targets
    /\ entry' = [entry EXCEPT !["memory"] = Compacted(@)]
    /\ UNCHANGED <<doubled, byUser>>
    /\ Others

-----------------------------------------------------------------------------
save_thread(t) ==
    /\ ~thread[t].saved
    /\ Op
    /\ thread' = [thread EXCEPT ![t].saved = TRUE]
    /\ UNCHANGED <<stores, shown, skills, crashes>>

delete_thread(t) ==
    /\ thread[t].saved
    /\ Op
    /\ thread' = [thread EXCEPT ![t] = NoThread]
    /\ shown' = [shown EXCEPT ![t] = {}]
    /\ UNCHANGED <<stores, skills, crashes>>

(* get_chat_memory_snapshot; a chat whose thread is not saved yet has none.                *)
Stored_never(t) == FALSE
Stored(t) == thread[t].frozen

chat_memory_snapshot(t) ==
    LET snapshot == IF Stored(t) THEN thread[t].snapshot ELSE entry IN
    /\ Op
    /\ thread' = IF thread[t].saved /\ ~thread[t].frozen
                 THEN [thread EXCEPT ![t].frozen = TRUE, ![t].snapshot = snapshot]
                 ELSE thread
    /\ shown' = IF thread[t].saved THEN [shown EXCEPT ![t] = @ \union {snapshot}] ELSE shown
    /\ UNCHANGED <<stores, skills, crashes>>

-----------------------------------------------------------------------------
(* upsert_skill by name: the prompt changes, the version does not.                          *)
upsert_skill(s, prompt) ==
    /\ Op
    /\ skill' = [skill EXCEPT ![s] = IF @.live THEN [@ EXCEPT !.prompt = prompt]
                                     ELSE [NoSkill EXCEPT !.live = TRUE, !.prompt = prompt]]
    /\ edited' = IF skill[s].live THEN edited \union {s} ELSE edited
    /\ UNCHANGED <<stores, thread, shown, history, torn, crashes>>

(* analyze_for_skill_generation leaves a skill that has the name alone.                      *)
skill_auto_generate(s, prompt) ==
    /\ ~skill[s].live
    /\ upsert_skill(s, prompt)

Improved(s, prompt) == [skill EXCEPT ![s].prompt = prompt, ![s].version = @ + 1]

Logged_prompt(s, prompt) == [before |-> prompt, after |-> prompt, version |-> skill[s].version + 1]
Logged(s, prompt) ==
    [before |-> skill[s].prompt, after |-> prompt, version |-> skill[s].version + 1]

improve_skill(s, prompt) ==
    /\ skill[s].live
    /\ Op
    /\ skill' = Improved(s, prompt)
    /\ history' = [history EXCEPT ![s] = Append(@, Logged(s, prompt))]
    /\ UNCHANGED <<stores, thread, shown, edited, torn, crashes>>

(* The two statements are no transaction: the application ends between them.                  *)
improve_skill_torn(s, prompt) ==
    /\ skill[s].live
    /\ crashes < MaxCrashes /\ crashes' = crashes + 1
    /\ Op
    /\ skill' = Improved(s, prompt)
    /\ torn' = torn \union {s}
    /\ UNCHANGED <<stores, thread, shown, edited, history>>

delete_skill(s) ==
    /\ skill[s].live
    /\ Op
    /\ skill' = [skill EXCEPT ![s] = NoSkill]
    /\ history' = [history EXCEPT ![s] = <<>>]
    /\ edited' = edited \ {s} /\ torn' = torn \ {s}
    /\ UNCHANGED <<stores, thread, shown, crashes>>

Next ==
    \/ \E target \in Targets, text \in Texts :
        \/ mutate_add(target, text) \/ mutate_remove(target, text)
        \/ \E needle \in Texts : mutate_replace(target, needle, text)
        \/ \E k \in Keys, raw, sure \in BOOLEAN : upsert(target, k, text, raw, sure)
    \/ \E target \in Targets, k \in Keys : delete_entry(target, k)
    \/ memory_compact
    \/ \E t \in Threads : save_thread(t) \/ delete_thread(t) \/ chat_memory_snapshot(t)
    \/ \E s \in Skills :
        \/ delete_skill(s)
        \/ \E prompt \in Texts :
            upsert_skill(s, prompt) \/ skill_auto_generate(s, prompt)
                \/ improve_skill(s, prompt) \/ improve_skill_torn(s, prompt)

Spec == Init /\ [][Next]_vars

-----------------------------------------------------------------------------
(* The agent's tool repeats no text: two entries of a store have the same text only after   *)
(* a replacement by one that was there, or an entry of the user (mutate_curated_memory).     *)
TextsDistinct == \A target \in Targets \ doubled : ~Repeats(entry[target])

(* A chat is shown one memory for as long as its thread exists, whatever is learnt or        *)
(* forgotten meanwhile (chat_memory_snapshot, save_chat_memory_snapshot).                    *)
MemoryFrozen == \A t \in Threads : Cardinality(shown[t]) <= 1

(* The history of a skill leads to its version and to its text without a hole, each           *)
(* improvement recording the text it replaced, unless an improvement was cut short, or, for     *)
(* the texts, the skill was written again under its name (improve_skill, upsert_skill).         *)
HistoryComplete ==
    \A s \in Skills \ torn :
        /\ skill[s].version = Len(history[s]) + 1
        /\ \A i \in DOMAIN history[s] :
            /\ history[s][i].version = i + 1
            /\ s \notin edited => history[s][i].after =
                IF i = Len(history[s]) THEN skill[s].prompt ELSE history[s][i + 1].before

(* A store that only the agent's tool wrote to stays within its limit                           *)
(* (usage_chars, mutate_curated_memory).                                                        *)
WithinLimit == \A target \in Targets \ byUser : usage_chars(entry[target]) <= Limits[target]

(* All four of them.                                                                            *)
MemorySound == TextsDistinct /\ MemoryFrozen /\ HistoryComplete /\ WithinLimit
=============================================================================
