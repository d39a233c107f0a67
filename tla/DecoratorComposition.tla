------------------------ MODULE DecoratorComposition ------------------------
(***************************************************************************)
(* The decorator composition layer (backend decorator-composition/): the  *)
(* decorators written above one controller method, applied by TypeScript  *)
(* bottom-up at class definition, and then one request through what they  *)
(* built: the global CompositionGuard, the method's guards in              *)
(* GUARDS_METADATA order, the CompositionInterceptor, the descriptor       *)
(* wrappers of @Log and @Cache from the outermost in, the handler, and the *)
(* TRANSFORM map on the way out.                                           *)
(*                                                                         *)
(* Every decorator pushes a DecoratorEntry into PRE_INIT_BUFFER, which the *)
(* MetadataRegistryService drains unchanged, so the registry's store for   *)
(* the method is buffer, filed under the method's property key.  The     *)
(* interceptor and CompositionGuard look it up by handler.name, the name  *)
(* of descriptor.value when the request comes: @Log's replacement is the   *)
(* function `wrapper`, and @Cacheable's is taken to keep the name.         *)
(* Options objects, schemas and mappers are model   *)
(* values; the guards' own decisions, the validator's verdict and a cache  *)
(* hit are free choices.                                                   *)
(***************************************************************************)
EXTENDS Integers, Sequences, SequencesExt

CONSTANTS
    Kinds,          \* decorator kinds that may be written, with "COMPOSABLE"
    Options,        \* options objects (schema, mapper, ttl, level, ...)
    MaxDecorators,  \* bound on the decorators written above the method
    NULL

VARIABLES
    written,    \* the decorators written above the method, top to bottom
    applied,    \* how many of them have been applied, from the bottom up
    stack,      \* COMPOSITION_STACK_KEY of the method
    buffer,     \* PRE_INIT_BUFFER entries of the method, in push order
    meta,       \* SetMetadata keys on descriptor.value
    guards,     \* GUARDS_METADATA on descriptor.value, in order
    wrappers,   \* descriptor.value as a chain of wrappers, outermost first
    handlerName, \* descriptor.value.name: "method", or "wrapper" after @Log
    pc,         \* where the request is
    gi,         \* the next guard to run
    wi,         \* the next wrapper to enter
    mapper,     \* the map(mapper) the interceptor piped, or NULL
    trace       \* the phases the request ran, in order, with their options

decVars == <<written, applied, stack, buffer, meta, guards, wrappers, handlerName>>
reqVars == <<pc, gi, wi, mapper, trace>>
vars == <<decVars, reqVars>>

DECORATOR_PRIORITY ==
    [AUTH |-> 10, RATE_LIMIT |-> 20, VALIDATE |-> 30, CACHE |-> 40,
     LOG |-> 50, TRANSFORM |-> 60, COMPRESS |-> 70]

\* LOG merges, every other type keeps the last-registered entry.
DEFAULT_MERGE_POLICY ==
    [t \in DOMAIN DECORATOR_PRIORITY |-> IF t = "LOG" THEN "merge" ELSE "last-wins"]

Decoration == [kind : Kinds, opt : Options]

\* The DecoratorEntry each decorator factory builds.
Entry(d) == [type |-> d.kind, priority |-> DECORATOR_PRIORITY[d.kind],
             options |-> d.opt]

-----------------------------------------------------------------------------
(* MetadataRegistryService                                                 *)

\* mergeStack and applyMergeStrategy: one entry per type; "merge" keeps the
\* first entry with the options of all merged, the last key winning.
MergeStack(entries) ==
    LET group(t) == SelectSeq(entries, LAMBDA e : e.type = t)
        pick(t) ==
            CASE DEFAULT_MERGE_POLICY[t] = "first-wins" -> Head(group(t))
              [] DEFAULT_MERGE_POLICY[t] = "merge" ->
                     [Head(group(t)) EXCEPT !.options = Last(group(t)).options]
              [] OTHER -> Last(group(t))
    IN  {pick(t) : t \in {entries[i].type : i \in DOMAIN entries}}

\* store.get(buildKey(controller.name, handler.name)) ?? []: the method's
\* entries only while the handler still bears the method's name.
Registered == IF handlerName = "method" THEN buffer ELSE << >>

\* getComposedMetadata(...).stack: the merged entries by ascending priority.
ComposedStack ==
    SetToSortSeq(MergeStack(Registered), LAMBDA a, b : a.priority < b.priority)

\* getComposedMetadata(...).hasAuth, hasValidation, ...
Has(t) == \E i \in DOMAIN Registered : Registered[i].type = t

-----------------------------------------------------------------------------
(* Class definition: the decorators applied, innermost first               *)

Decorating == applied < Len(written)

\* The decorator TypeScript applies next.
Current == written[Len(written) - applied]

\* bufferDecoratorEntry, and the append to COMPOSITION_STACK_KEY.
RegisterEntry ==
    /\ buffer' = Append(buffer, Entry(Current))
    /\ stack' = Append(stack, Entry(Current))

ApplyStep(kind) ==
    /\ Decorating
    /\ Current.kind = kind
    /\ applied' = applied + 1
    /\ UNCHANGED <<written, reqVars>>

\* @Auth: UseGuards(JwtAuthGuard, PermissionGuard) appends both guards.
ApplyAuth ==
    /\ ApplyStep("AUTH")
    /\ RegisterEntry
    /\ guards' = guards \o <<"JwtAuthGuard", "PermissionGuard">>
    /\ UNCHANGED <<meta, wrappers, handlerName>>

\* @ComposedRateLimit: the delegated @RateLimit adds its RateLimitGuard.
ApplyRateLimit ==
    /\ ApplyStep("RATE_LIMIT")
    /\ RegisterEntry
    /\ guards' = guards \o <<"RateLimitGuard">>
    /\ UNCHANGED <<meta, wrappers, handlerName>>

\* @Validate: SetMetadata(VALIDATE_SCHEMA_KEY, schema) overwrites.
ApplyValidate ==
    /\ ApplyStep("VALIDATE")
    /\ RegisterEntry
    /\ meta' = [meta EXCEPT !.schema = Current.opt]
    /\ UNCHANGED <<guards, wrappers, handlerName>>

\* @Cache: the delegated @Cacheable wraps descriptor.value.
ApplyCache ==
    /\ ApplyStep("CACHE")
    /\ RegisterEntry
    /\ wrappers' = <<[kind |-> "CACHE", opt |-> Current.opt]>> \o wrappers
    /\ UNCHANGED <<meta, guards, handlerName>>

\* @Log: descriptor.value becomes a wrapper around the current one, with
\* every metadata key of the current one copied onto it; the new function
\* is `const wrapper = async function`, so its name is "wrapper".
ApplyLog ==
    /\ ApplyStep("LOG")
    /\ RegisterEntry
    /\ wrappers' = <<[kind |-> "LOG", opt |-> Current.opt]>> \o wrappers
    /\ handlerName' = "wrapper"
    /\ UNCHANGED <<meta, guards>>

\* @Transform: SetMetadata(TRANSFORM_MAPPER_KEY, mapper) overwrites.
ApplyTransform ==
    /\ ApplyStep("TRANSFORM")
    /\ RegisterEntry
    /\ meta' = [meta EXCEPT !.mapper = Current.opt]
    /\ UNCHANGED <<guards, wrappers, handlerName>>

\* @Compress: SetMetadata(COMPRESS_METADATA_KEY, true).
ApplyCompress ==
    /\ ApplyStep("COMPRESS")
    /\ RegisterEntry
    /\ meta' = [meta EXCEPT !.compress = TRUE]
    /\ UNCHANGED <<guards, wrappers, handlerName>>

\* @Composable on a method: SetMetadata(COMPOSABLE_METADATA_KEY, ...).
ApplyComposable ==
    /\ ApplyStep("COMPOSABLE")
    /\ meta' = [meta EXCEPT !.composable = TRUE]
    /\ UNCHANGED <<stack, buffer, guards, wrappers, handlerName>>

-----------------------------------------------------------------------------
(* One request                                                             *)

GuardPhase == [JwtAuthGuard |-> "AUTH", PermissionGuard |-> "AUTH",
               RateLimitGuard |-> "RATE_LIMIT"]

Ran(phase, opt) == trace' = Append(trace, [phase |-> phase, opt |-> opt])

Receive ==
    /\ ~Decorating
    /\ pc = "idle"
    /\ pc' = "compositionGuard"
    /\ UNCHANGED <<decVars, gi, wi, mapper, trace>>

\* CompositionGuard's ordering checks on the composed stack.
OrderingIntact ==
    LET S == ToSet(ComposedStack)
        p(t) == {e.priority : e \in {x \in S : x.type = t}}
        below(a, b) == \A x \in p(a), y \in p(b) : x < y
    IN  /\ below("AUTH", "VALIDATE") /\ below("RATE_LIMIT", "VALIDATE")
        /\ below("VALIDATE", "CACHE") /\ below("TRANSFORM", "COMPRESS")
        /\ \A e \in S : e.priority = DECORATOR_PRIORITY[e.type]

\* CompositionGuard.canActivate, the global guard, runs first.
CompositionGuardCheck ==
    /\ pc = "compositionGuard"
    /\ pc' = IF ~meta.composable \/ OrderingIntact THEN "guards" ELSE "error"
    /\ UNCHANGED <<decVars, gi, wi, mapper, trace>>

\* The method's guards in GUARDS_METADATA order; a false stops the chain.
RunGuard ==
    /\ pc = "guards"
    /\ \/ /\ gi <= Len(guards)
          /\ Ran(GuardPhase[guards[gi]], NULL)
          /\ \/ gi' = gi + 1 /\ UNCHANGED pc
             \/ pc' = "rejected" /\ UNCHANGED gi
       \/ /\ gi > Len(guards)
          /\ pc' = "intercept"
          /\ UNCHANGED <<gi, trace>>
    /\ UNCHANGED <<decVars, wi, mapper>>

\* CompositionInterceptor.intercept up to next.handle(): VALIDATE, then the
\* COMPRESS header, then the TRANSFORM pipe.
Intercept ==
    /\ pc = "intercept"
    /\ IF ~meta.composable
       THEN pc' = "handler" /\ mapper' = NULL /\ UNCHANGED trace
       ELSE LET validates == Has("VALIDATE") /\ meta.schema # NULL
                compresses == Has("COMPRESS") /\ meta.compress
                pipes == IF Has("TRANSFORM") THEN meta.mapper ELSE NULL
                validated == <<[phase |-> "VALIDATE", opt |-> meta.schema]>>
                IN  \/ /\ validates
                       /\ pc' = "rejected" /\ UNCHANGED mapper
                       /\ trace' = trace \o validated
                    \/ /\ pc' = "handler" /\ mapper' = pipes
                       /\ trace' = trace
                                   \o (IF validates THEN validated ELSE << >>)
                                   \o (IF compresses
                                       THEN <<[phase |-> "COMPRESS", opt |-> NULL]>>
                                       ELSE << >>)
    /\ UNCHANGED <<decVars, gi, wi>>

\* The @Log wrapper logs and awaits the function it wraps.
RunLogWrapper ==
    /\ pc = "handler"
    /\ wi <= Len(wrappers)
    /\ wrappers[wi].kind = "LOG"
    /\ Ran("LOG", wrappers[wi].opt)
    /\ wi' = wi + 1
    /\ UNCHANGED <<decVars, pc, gi, mapper>>

\* The @Cacheable wrapper: a hit returns the cached value without calling
\* the function it wraps.
RunCacheWrapper ==
    /\ pc = "handler"
    /\ wi <= Len(wrappers)
    /\ wrappers[wi].kind = "CACHE"
    /\ Ran("CACHE", wrappers[wi].opt)
    /\ \/ pc' = "respond" /\ UNCHANGED wi
       \/ wi' = wi + 1 /\ UNCHANGED pc
    /\ UNCHANGED <<decVars, gi, mapper>>

\* The original method body.
RunHandler ==
    /\ pc = "handler"
    /\ wi > Len(wrappers)
    /\ Ran("HANDLER", NULL)
    /\ pc' = "respond"
    /\ UNCHANGED <<decVars, gi, wi, mapper>>

\* The piped map(mapper) transforms the response.
Respond ==
    /\ pc = "respond"
    /\ IF mapper # NULL THEN Ran("TRANSFORM", mapper) ELSE UNCHANGED trace
    /\ pc' = "done"
    /\ UNCHANGED <<decVars, gi, wi, mapper>>

-----------------------------------------------------------------------------

DecInit ==
    /\ written \in UNION {[1..n -> Decoration] : n \in 0..MaxDecorators}
    /\ applied = 0
    /\ stack = << >>
    /\ buffer = << >>
    /\ meta = [composable |-> FALSE, schema |-> NULL, mapper |-> NULL,
               compress |-> FALSE]
    /\ guards = << >>
    /\ wrappers = << >>
    /\ handlerName = "method"
    /\ pc = "idle"
    /\ gi = 1
    /\ wi = 1
    /\ mapper = NULL
    /\ trace = << >>

DecNext ==
    \/ ApplyAuth \/ ApplyRateLimit \/ ApplyValidate \/ ApplyCache
    \/ ApplyLog \/ ApplyTransform \/ ApplyCompress \/ ApplyComposable
    \/ Receive \/ CompositionGuardCheck \/ RunGuard \/ Intercept
    \/ RunLogWrapper \/ RunCacheWrapper \/ RunHandler \/ Respond

DecSpec == DecInit /\ [][DecNext]_vars

-----------------------------------------------------------------------------
(* Properties                                                              *)

\* The phases a request runs follow DECORATOR_PRIORITY ("Lower number =
\* runs first"), whatever order the decorators are written in: AUTH before
\* RATE_LIMIT, CACHE before LOG, TRANSFORM before COMPRESS.
PhasesRunInPriorityOrder ==
    \A i, j \in DOMAIN trace :
        (i < j /\ trace[i].phase # "HANDLER" /\ trace[j].phase # "HANDLER")
            => DECORATOR_PRIORITY[trace[i].phase] <= DECORATOR_PRIORITY[trace[j].phase]

\* The option a written decorator of the given kind closest to the method.
InnermostOption(kind) ==
    written[SelectLastInSeq(written, LAMBDA d : d.kind = kind)].opt

\* last-wins, as DEFAULT_MERGE_POLICY documents it: when @Transform or
\* @Validate is written twice, the innermost one's mapper or schema is the
\* one the request runs.
InnermostConfigWins ==
    \A i \in DOMAIN trace :
        trace[i].phase \in {"TRANSFORM", "VALIDATE"}
            => trace[i].opt = InnermostOption(trace[i].phase)

\* The interceptor's promise (constants.ts, the VALIDATE phase runs "so the
\* handler never executes on invalid input"): a request to a composable
\* method that carries a schema reaches the method body only after the VALIDATE phase ran, whatever
\* other decorators are stacked on it.
ValidatedBeforeHandler ==
    \A i \in DOMAIN trace :
        (trace[i].phase = "HANDLER" /\ meta.composable /\ meta.schema # NULL)
            => \E j \in 1..(i - 1) : trace[j].phase = "VALIDATE"
=============================================================================
