# simvacation: a verification project

simvacation answers mail for people who are away.  The MTA starts one process
per delivery attempt with the message on its standard input; the process looks
the recipient up in a directory, decides whether this sender should get an
answer, records the answer in a database of replies and pipes it to a mailer.
A second program, simunvacation, runs periodically and vacuums the database.
These modules model the two programs from their C source (`src/`), check them
with TLC on small instances and prove, with TLAPS, what matters most for every
instance.

## 1. Inventory

| part | source | state it keeps | operations | talks to |
| --- | --- | --- | --- | --- |
| reply pipeline | simvacation.c `main` | `retval`, `h`, `vlu`, `vdb`, options | start, search, group_search, vdb init, readheaders, check_from, recent, store_reply, send, exit | MTA (stdin, exit status), VLU, VDB, mailer |
| header reader | simvacation.c:185-383 | `state`, `current_hdr`, `h`, `rcpt_hdrs` | one loop iteration per line that fgets returns | stdin |
| mail hand-off | simvacation.c:401-521, vutil.c:56-100 | descriptors of two processes, pipe, stdout's buffer | pipe, fork, close, dup2, execv in the child, printf and exit in the parent | mailer |
| sender check | vutil.c:102-260 | none | is_substring, canon_from, check_from | |
| user directory (VLU) | vlu.c, vlu_ldap.c | LDAP connection, result, `attr_msg`, `interval` | init, search, group_search, aliases, message, ... | LDAP server |
| reply database (VDB) | vdb.c, vdb.h | per backend | init, close, recent, store_reply, get_names, clean, gc | |
| null backend | vdb.c:66-100 | none | all empty | |
| LMDB backend | vdb_lmdb.c | the map: key to time of the last reply | recent, store_reply, gc as transactions | other processes, through LMDB's writer mutex |
| Redis backend | vdb_redis.c | server keys with times to live | GET, DEL, SET, EXPIRE | Redis server, other processes through it |
| key construction | vdb_lmdb.c:244-255, vdb_redis.c:128-136, rabin.c | none | key of recipient and sender's fingerprint | |
| cleanup job | simunvacation.c | `vdb`, `vlu` | start, vdb init, vlu init, (empty) clean loop, gc | LMDB |
| configuration | vutil.c:18-54, simvacation.conf | `vac_config` | read_vacation_config | file system |
| string library | yasl.c | a block of memory per string: length, free bytes, text, NUL | make, copy, append, format, cut, map, grow, split a command line, free | malloc |

**How they interact.** All processes share the database and the clock, nothing
else.  Within a process the parts are called in a fixed order by `main`; the
two backend tables (`vlu_backend`, `vdb_backend`) choose the implementations.
The MTA interacts through the exit status: EX_TEMPFAIL and death by a signal
bring the same message back later as a new process.

**What is hard here.**

* `recent` and `store_reply` are two transactions, so runs of the same
  correspondent overlap between "was he answered?" and "he is being answered".
* The record is stored before the reply is sent, and its result is ignored;
  every failure after that is retried by the MTA into the record left by the
  failed attempt.
* time() is read outside the transactions that use it, in three places.
* Redis needs two commands to store one record, and erases a record that it
  read some time ago.
* Processes die anywhere, with or without LMDB's writer mutex.
* The sweep and the expiry run beside all this and must not take a record that
  still suppresses.
* A Redis command whose sender was killed may be executed later, after others.
* Parent and child of the hand-off share a pipe, wait for nobody, and each may
  end first; nobody asks how the child ended.
* The person's search and the group's read one connection and leave settings in
  one place; an outage may fall between them.
* Headers arrive as lines of at most 999 characters, folded at will, and
  decide whether there is an answer at all.

**What makes each part correct.**

| part | correctness |
| --- | --- |
| pipeline and database together | a correspondent gets one answer per interval, as far as two transactions can promise it (`Suppression`); a retry does not answer again (`RetryIsSilent`, `SecondReplyNeedsFailure`) |
| every backend | implements the ledger (`LedgerSpec`); keeps records as long as an interval may need them (`RecordsPersist`, `RecordsKeepTheirRetention`) and not for ever (`GcCollects`) |
| processes | each ends, whatever others do with the writer mutex (`EveryProcessEnds`) |
| hand-off | a second reply of one delivery, or a second text, needs a failure or a signal (`SecondReplyNeedsFailure`, `TextTwiceNeedsSignal`); a mailer that gets a cut reply is known to the MTA as failed (`CutMeansFailure`); run and mailer come to an end (`SendingEnds`, `MailerEnds`); the calls add up to the pipeline's four outcomes (`NullSpec`) |
| header reader and reply | no answer to a message that forbids one (`ForbiddenUnlessHidden`, `AutoSubmittedHonoured`) and none withheld without cause (`SuppressedForCause`); no line counted to a field it does not belong to (`LinesStayInTheirField`); the reply is threaded to its parent (`ReplyIsThreaded`, `ThreadedBySingleIdentifier`) |
| sender check | no answer to the system addresses, however they came (`RefusedWhereverFrom`), nor to the null address (`NullAddressRefused`); tags and forwarders leave a correspondent the same (`SameCorrespondent`); the recipient is found where one of the names stands, and nowhere else (`FoundWhereNamed`) |
| directory | a vacation is one stretch (`OneStretch`); an answer is made of one entry's settings (`OneKind`); nobody owed an answer is given up for good, and no group answers in a person's stead (`NobodyPassedOver`) |
| keys | the fingerprint is the one it is meant to be (`FingerprintIsResidue`, `ShortDifferencesShow`); a key tells recipient and fingerprint (`KeyTells`) |
| strings | the header always tells the block (`HeaderTellsBlock`) and the block holds the text (`HoldsItsText`), whichever allocation fails; a command line comes out as the words it was written for (`QuotedComesBack`, `BlanksSeparate`), and reaches execv as program, name and arguments, the recipient as one of them (`RecipientIsOneWord`) |

The hazards behind these lines, each with its place in the source, are listed
in PROJECT.json.

## 2. The modules

```
ReplyLedger                  what recent and store_reply promise
   ^ implemented by
   |-- VdbLmdb  = Simvacation + Simunvacation + vdb_lmdb.c
   |-- VdbRedis = Simvacation + vdb_redis.c
       VdbNull  = Simvacation + the null backend of vdb.c
          ^ implemented by
          Pexecv = VdbNull with send_message and pexecv call by call
ReadHeaders  <- SendMessage    from the message's header to the reply's
CheckFrom    <- RcptMatch      the sender's address, the recipient's names
VluLdap                        the directories
RabinFingerprint <- VdbKeys    the key of a record
Yasl         <- YaslSplitargs  the strings, the mailer's command line
```

| module | code | correspondence |
| --- | --- | --- |
| `ReplyLedger` | vdb.h as simvacation.c:153-172 uses it | abstract: a holder per key (the run whose record is stored); a run looks, decides, may erase, stamps, records, replies; overlap, failure and lapse of records are allowed to the extent that every backend needs |
| `Simvacation` | simvacation.c `main` | `pc[r]` is the call process r makes next, `retval[r]` its exit status, and of an ended process how it ended. One action per call, one per way it may fail. A run is one delivery attempt `<<delivery, n>>`; attempt n+1 starts when attempt n ended by EX_TEMPFAIL, a fault or a signal |
| `VdbNull` | vdb.c:77-85 | the two calls that do nothing |
| `VdbLmdb` | vdb_lmdb.c | `recent` is a snapshot read and a comparison; `store_reply` is time(), waiting for the writer mutex, put and commit; `gc` the same. `db` is the last commit, `writer` the mutex. Every error path is an action |
| `Simunvacation` | simunvacation.c `main` | one process per job, up to and after `gc` |
| `VdbRedis` | vdb_redis.c | each of GET, DEL, SET, EXPIRE is an action that may fail; `ttl` and the expiry are the server's; `wire[r]` is the command that a killed run left on its way, executed at any later time or lost |
| `Pexecv` | simvacation.c:401-521, vutil.c:56-100 | one action per call of parent and child; `fds` are the descriptors of both, `buffer` is stdout's, `inPipe` the pipe's; writing to nobody is SIGPIPE, or an error nobody reads. The mailer reads to the end of the pipe |
| `ReadHeaders` | simvacation.c:186-383 | one action per kind of line; of a value what each comparison can tell: blank, "no", what only begins or goes on like it, forbidding; `state` and `current_hdr` are the code's; a kept field is the sequence of the positions of its lines |
| `SendMessage` | simvacation.c:462-504 | which of the kept fields are printed as Subject, In-Reply-To and References |
| `CheckFrom` | vutil.c:126-260 | an address is a sequence of tokens; each rewriting is an operator with the name of what it undoes. `Tag` and `Forward` are the servers on the way |
| `RcptMatch` | vlu.c and vlu_ldap.c (aliases), simvacation.c:341-358, vutil.c:102-124 | the names of either directory, the text collected from the recipient lines, and the loop that looks for one in the other, over characters |
| `VluLdap` | vlu.c, vlu_ldap.c:142-345, simvacation.c:118-133 | `provider` chooses the directory; opening and the searches in a row, each of which may fail, with the settings they assign; `answer` is what main gets from message, subject_prefix and interval |
| `RabinFingerprint` | rabin.c | a 64-bit word is the set of its bits; the eight tables are given by what their entries are (products by a power of x, reduced; all 2048 literals of rabin.c are these), the two loops step by step |
| `Yasl` | yasl.c | `str` is the block: its size, the header's `len` and `free`, and every byte, stale and uninitialised ones too; `text` is what it should hold. One action per operation; each allocation may fail |
| `YaslSplitargs` | yasl.c (yaslsplitargs, yaslcatrepr, yasljoin), simvacation.c:403-422, vutil.c:58-65 | the command line read a character at a time into a string of `Yasl`; `binary` and `argv` are what execv gets: the command, and the words with the directory cut off the first. A realloc that fails is a fault |
| `VdbKeys` | vdb_lmdb.c:244-255, vdb_redis.c:128-136, yasl.c:209-240 | the key as characters, with `%lx` and `yaslrange` |

An operator marked *Mutant* is the form a plausible bug would give the
definition under it; PROJECT.json says which property it violates.  History
variables are marked so and read by no action.

**What is abstracted.** Text is kept only as far as a property tells it apart:
lines by field, leading white space, whether the value forbids an answer, and
whether they fill fgets's buffer; addresses by their punctuation.  Logging,
debugging options and the wording of the reply are left out.  Each decision
that depends on data another module handles (a directory's answer, a header, a
key) is a choice in `Simvacation`, so the runs over it hold for any of them.

**What is assumed.** The clock is one for all processes and does not run
backwards; time() does not fail.  (CLOCK_REALTIME_COARSE lags behind time() by
milliseconds; the directory and the database compare their clocks with nothing
of each other's.)  LMDB, Redis, the LDAP server, the MTA, the mailer and the
forwarders are external and modelled from their use: LMDB's robust mutex is
handed on when its owner dies, and an uncommitted transaction leaves no trace;
a Redis command whose sender lives is executed before its result is seen, or
fails and is not executed (time-outs of living clients are urcl's).  A process is
started with descriptors 0, 1 and 2 open, and has nothing in stdout's buffer when
it forks.  The mailer reads to the end of its input or ends.  Sizes of strings do
not reach the width of size_t.  Distinguished names that the server returns parse.  The
message ends with a newline.  Directory entries do not change while the model runs.  Names are
looked for only in messages as their sender wrote them (`Untouched`): the
question about the recipient and the one about the sender share no state.

## 3. What the runs show

| run | shows | size |
| --- | --- | --- |
| `ledger` | what two separate transactions can promise: a run that mails within the interval of a record it could have seen does so only because another run overlapped or erased by a shorter interval (`Suppression`); and a record is not lost before its time otherwise (`RecordsPersist`) | three runs of one key: one to record, one to interfere, one to look |
| `handoff` | without a database a second reply of one delivery needs a kill or a failure after the mailer was started, and a second text a signal; a reply cut short has a sender that failed; the calls of both processes amount to the outcomes that the other runs take for granted; run and mailer end | a delivery and its retry; a reply of two pieces, a buffer and a pipe of one |
| `lmdb_sweep` | the two programs over LMDB are ledger runs, errors, kills, both intervals and the sweep included; a retry stays silent | a delivery and its retry, and a job |
| `lmdb_live` | nobody waits for ever for the writer mutex | two runs and a job; addresses on both sides of the clock |
| `redis_ledger` | the same refinement over four commands per run, with failures, expiry and commands that come late after a kill: of an interval beyond the retention the ledger promises what the retention covers; no record expires before its own retention | two overlapping deliveries; intervals of 1 and 3, a retention of 2 |
| `headers` | see the header reader in section 1, from the first line to the reply's header | every header of up to four lines out of 28 kinds, folded and cut, values glued to the colon among them |
| `lookups` | what a run looks up.  *The directory:* every pair of a person's and a group's entry, over several messages, with either search, the clock or the opening failing in between; beside it the directory that has everybody away and a provider nobody knows.  *The key:* the fingerprint of every length up to two blocks and an odd byte is the remainder of long division; any two messages that differ in at most eight bytes' reach have different ones; keys are read back | three seconds, times on either side; at most two bytes of a message are not zero: the fingerprint is linear |
| `strings` | what a run does with text.  *Strings:* any sequence of string operations, any allocation failing, leaves a string whose header tells its block and whose block holds its text, or none; the mailer's command line.  *Addresses:* nine local parts, quoted and with the schemes' own punctuation, and the null address, tagged or not, through up to three forwarders with any separators, come out as they were, and are refused if they are on the list, unless the address is `Ambiguous`; three recipients with up to two common names are found in any recipient line of three characters, or of two with a continuation, where a name stands and only there | strings of up to 4 bytes, YASL_MAX_PREALLOC of 4, a first buffer of 2; command lines of up to two words out of eight, three of them with a slash, quoted either way and one or two blanks apart, for a recipient with a slash, a blank and a quote, and every line of up to four characters out of a letter, a blank, a form feed, both quotes and the backslash; of the addresses, from three forwarders on only a hash changes |
| `lmdb_gc` | (violation) a sweep leaves records older than 7 days | a 64-bit machine's addresses |
| `headers_auto` | (violation) a forbidding Auto-Submitted is not honoured | headers of three lines |
| `reply_single` | (violation) an In-Reply-To of several identifiers goes into References | headers of three lines |
| `sender_null` | (violation) the null address is accepted | as the addresses of `strings` |

**Bounds.** `MaxRuns` bounds the attempts of a delivery, `MaxTime` the clock,
`MaxLines` the header, `Forwarders` the path of an address; `KeyEnd` is the
code's 511, scaled down so that the cut falls inside a key.  One key is enough
for the database: records of different keys never meet (the proofs have any
number).  In `ledger`, `lmdb_live` and `redis_ledger` runs overlap in every way
their transactions or commands can, and the third of `ledger` is the one that looks
at what the others left.  `lmdb_sweep` spends its bounds on the retry and the sweep;
that any number of overlapping runs over LMDB keep to the ledger is a theorem
(`LmdbRefinesLedger`).  Intervals of 1 and 2 and a
clock up to 2 put a lookup before, at and after the end of each.  A reply of two
pieces is longer than the buffer and longer than the pipe, so that a writer waits
for either.  Four bytes are enough for a string to outgrow its block, with and
without YASL_MAX_PREALLOC, and for yaslcatvprintf to double its buffer twice; a
word of two characters is enough for each escape.  Four lines
are the field that hides, the one hidden, its continuation and the recipient.
The symmetry in the database runs is between runs, or deliveries, that have the
same key and number of attempts; no definition names one.

**Deadlock** is not checked where the model ends because all processes have
ended, all lines are read, the command line is split or the address has arrived.
It is checked in `lookups`, where the directory goes on.  `lookups` and `strings`
each examine two things that share no state, one while the other rests.

**Fairness.** Two runs need any.  `lmdb_live` has weak fairness on `RunStep` and
`JobStep`: a started process is scheduled and its calls return, and one that waits
for the mutex gets it once it stays free.  Weak fairness suffices because there
are finitely many processes, each of which takes the mutex at most once.
`handoff` has weak fairness on each run's `SendStep` and on its `ChildStep`: the
two processes are scheduled, and a mailer, which is not this code, goes on reading
its input.  Nothing is assumed of failures and kills: no wait may rely on one, a
failing process has to release the mutex on its own error path, and a run that
writes to a pipe nobody reads has to learn of it by having closed its own copy of
the other end.

## 4. What is proved

TLAPS proves the following for any constants that satisfy the named
assumptions of the modules (`RunKeyAssumption`, `BoundAssumption`,
`DeliveryAssumption`, `TimeAssumption`, `RetentionAssumption`,
`TimesAssumption` and the like: that intervals are natural numbers, that
constants have the types their comments say, that "no run" is not a run, and, in
`ProcessAssumption`, that no process is both a run and a cleanup job).
Three of them say more.  `SplitAssumption`: a byte is one of 0..255, what separates
words is blank, and neither a line nor the recipient has a NUL.  `MatchAssumption`: names and lines hold no
newline, and a name is not empty and does not begin with a blank.  `PathAssumption`:
nobody's own address looks like a rewritten one, a name of check_from's list ends a
local part, and a forwarder's domain is neither "@" nor a separator.

* `ReplyLedger_proofs`: `TypeCorrect`, `SuppressionHolds`, `RecordsPersistHolds`.
  `Suppression` speaks of one moment and is not inductive.  The inductive
  invariant `Inv` is `Basic` (changes are numbered in order; what a run has done
  by each phase; times come in the order of the steps; records are of their
  key; who went past its decision has waited) with two parts about the past:
  `Kept`, that every record ever stored is held by one as young, or has
  lapsed, or was interfered with, and `Seen`, that the same was true of what a
  run found at the moment it looked.  `Kept` gives `RecordsPersist`; `Seen` and
  `Waited` give `Suppression`.
* `VdbLmdb_proofs`: `TypeCorrect`; `LmdbRefinesLedger`, that every step of the
  two programs over LMDB is a step of the ledger or none; `LmdbSuppression`, by
  the ledger's theorem; `RetryStaysSilent`.  All but the first have `LP64` as
  their hypothesis: addresses in the map are above any time.  It is a
  hypothesis because the sweep compares addresses (section 5); without it the sweep
  may take young records and the refinement is false.  The refinement needs that a record
  says when its writer took the time and that the writer is past the step that
  could take another (`AllAuthentic`), that nobody compares a record it did not
  find (`Positions`), and that a cutoff is not in the future (`Bounded`).
  `RetryStaysSilent` adds `Order`: attempts of one delivery come one after the
  other, so of the runs the ledger blames none is an attempt of the delivery.
  `MutexNeverLeftBehind` is the safe half of `EveryProcessEnds`, and needs no
  `LP64`: the writer mutex is held exactly by the process between the begin and
  the end of its write transaction, so no error path, assertion or kill leaves it
  behind, and whoever waits for it waits for a live process that itself waits for
  nothing.  `TransactionsIsolated` is what the mutex is for: only the end of the
  owner's transaction changes the database, and the mutex passes on by being free.
* `VdbRedis_proofs`: `TypeCorrect`; `RetentionHolds`; `RedisRefinesLedger`,
  that GET, DEL, SET and EXPIRE, executed in time, late or never, and the expiry
  are ledger steps; `RedisSuppression`, by the ledger's theorem.  `Inv` is
  LMDB's (`AllAuthentic`, `Positions`, the latter with the command on `wire`
  taken for the place of the run that left it), with `Past`, that stamps are not in
  the future, and the retention itself: the server's expiry is a lapse only because
  a time to live is never earlier than its record's.  What the two
  refinements share is in `Simvacation_proofs`.
  `RetryHasReason` is what is left of `RetryIsSilent` over Redis, where a killed
  attempt's last command may overtake its successor: a retry repeats a reply within
  the kept interval of an earlier record only if a run of another delivery, an
  attempt with a command still on its way, or an attempt with a shorter interval
  removed that record.  `LooksLater` is the invariant: what an attempt changed that
  left no command behind is before the look of every later one.  None of the
  three reasons can be left out: TLC finds the second and the third as soon as a
  delivery has three attempts (the third: two as a person's, then one as a group's
  with the longer interval).
* `Pexecv_proofs`: over `VdbNull`, `NullTypeCorrect` and `SecondReplyHolds`; over
  the calls of `Pexecv`, for a text, buffer and pipe of any size,
  `HandoffTypeCorrect`, `HandoffSecondReply`, `TextTwiceHolds`,
  `CutMeansFailureHolds`, and `HandoffRefinesOutcomes`, that the calls are
  the outcomes of `VdbNull`.  The replies of the outcomes are `Promised`: a
  child that will execute the mailer counts from when main leaves `send_message`.
  `HandoffInv` is the types, `Retried` (an attempt follows one that failed) and for
  each run where it and its child are (`Located`, `Over`), what main was told
  (`Told`), that each piece of the text is in exactly one place (`Counted`), and
  who can still write to the pipe (`Connected`).
  Two theorems are what `SendingEnds` and `MailerEnds` need besides fairness.
  `NobodyWaits`: as long as a run prints, the end to read from is open if and
  only if the child is there, and as long as the mailer reads, the end to write to is
  open if and only if the run has not ended, so nobody waits for itself and no
  two wait for each other.  `Tidy` is the half `Connected` leaves open, which
  copies of an end are closed by which call; it is what the four closes of pexecv
  are for.  `HandoffTerminates`: every step, of anybody and failures and signals
  included, brings one run nearer to its end by `Work`, a natural number, and
  leaves the others where they were, so the hand-off never runs in circles.
* `ReadHeaders_proofs`: `HeaderInvariant`, `HeaderTypeCorrect`, `LinesStay`,
  `CauseForSilence`, `ForbiddenIsHonoured` for headers of any length, and
  `SendReadsHeaders`, that they hold of the reader within `SendMessage`, and
  `ReplyThreaded`.
  `HeaderInv` ties the code's two variables to the message: `Remembers`, that
  `state` and `current_hdr` are those of the field of the last line, and
  `Passed`, that every line before it that forbids an answer was hidden in one of the
  ways the property names (`Hides`) or is a value of Auto-Submitted that the
  two-character comparison takes for another (`Mistaken`).  That these exceptions are
  not the comments' is shown by `headers_auto` and described in section 5; the
  theorem says that there are no others.  `ReplyThreaded` leaves out the In-Reply-To that `reply_single` is about, and needs that a sequence that grows is
  determined by its range (`GrowsInOrder`); that "grows" reaches from each
  element to all later ones is shown on the smallest place that would break it.
* `Lookups_proofs`, on what a run looks up.  *The directory*: `TypeCorrect`,
  `OneStretchHolds`, `OneKindHolds`, `NobodyPassedOverHolds`.  A vacation is a
  convex set of times (`AwayIsConvex`); `JudgedRightly`, that every judgement so far
  was the one the entry's window gives, makes `OneStretch` inductive.  `OneKind`
  needs `KindsInOrder`: until a group is found on vacation the one setting made in
  advance is still the person's, and with an answer all four are its base's.
  `NobodyPassedOver` needs `Asked`: when the groups are searched, the person was
  searched by this process and spared.
  *The key*: `FingerprintRight`, `DifferencesNotLost`, `KeyTypeCorrect`,
  `KeysTell`, for addresses of any length and any recipient.  `KeyInv` is the types,
  that odd bytes at the front are read one at a time and the rest in eights, and
  `Remains`: there is a long division of the bits read so far that leaves `rh`.
  Each pass of the loop has to extend that division by 8 or 64 bits.  64 steps of it
  have a closed form (`Advance`), because replacing x^64 is linear; that the eight
  tables together are the replacement follows since two linear functions that
  agree on the powers of x agree everywhere (`PowersDecide`).
  `DifferencesNotLost` is linearity again: what eight bytes in a row can change is
  a polynomial below x^64, times a power of x, and the division loses none.
* `Strings_proofs`, on the string library and the two places that read with it.
  *Strings*: `StringTypeCorrect`, `HeaderHolds`, `TextHolds`, for strings of
  any length and any bytes, and `StringsWhileSplitting`, that splitting a line keeps
  them.  `StringInv` is that the block holds the text, that the text is one, and the
  types.  It rests on lemmas about what every operation is made of: writing bytes
  into a block (`Put`), making room, appending (`Cat`) and cutting.
  *The command line*: `SplitTypeCorrect`, `QuotingRoundTrip`, `BlanksSeparateWords`,
  `RecipientStaysWhole`, for lines and words of any length.  `Coming` says where in the
  line each word asked for stands, which characters spell which of its bytes, and
  that the splitter, at `p` in the word k, has the first k words and of the next
  the bytes spelt before `p`.  `Stretches` says the same of a line without
  quotes: as many words are there as stretches between blanks begin before `p`.
  `Sending`: what execv is given are words of which none was lost.  The program is
  the first of them; `Directory` says that the name in `argv[0]` is what
  stands behind its last slash, and that nothing else of it is missing; the other
  arguments are untouched unless the recipient is itself the command.
  *The recipient*: `RecipientFound`, for any names and lines.  `MatchInv` says that
  the names before `obj` are not in the text; the rest is that a name, which has no
  newline, cannot stand across the newline that ends each line.
  *The sender*: `SameCorrespondentHolds` and `RefusedWhereverFromHolds`, for any
  address that is not null and any number of forwarders with any separators; `BothQuestions` has all
  three of the whole specification.  `PathInv` says that the address has one of
  three forms, the sender's own (tagged or not), SRS0 or SRS1, around the
  same local part: the second forwarder makes the third form and every later one
  keeps it.  For each form a lemma says what `canon_from` makes of it.

Several of these are inductions over data (the bits of an address, the characters
of a line).  The library's induction theorems cannot be instantiated by the provers,
so each is an argument about the least counterexample, a smallest element of
a set of numbers (`UpwardsFromZero`), and a function defined by recursion is got
hold of by showing that one exists that fulfils its equation (`DivisionIs` for the
bytes of a text, `DownBitsIs` for the bits of a byte).

**Only model-checked.** Liveness (`EveryProcessEnds`, `SendingEnds`,
`MailerEnds`), which the prover does not do: of each the theorems above prove that
whoever waits waits for somebody who can move, and for the hand-off that the steps come
to an end; that a step that can be taken is taken is left to TLC.

## 5. Where code and comments part

Four runs show a disagreement by a counterexample each:

* `lmdb_gc`: "Clean up entries older than 7 days." (vdb_lmdb.c:206), but
  line 229 compares the address of the stored time, `(time_t)data.mv_data`, and
  not the time.  On 64-bit machines nothing is ever removed.
* `headers_auto`: an answer SHOULD NOT be issued for any Auto-Submitted value
  but "no" (simvacation.c:215-217), but a line with nothing after the colon
  leaves the loop that reads the header (line 225, and for Precedence below
  it): what follows, the folded value included, is not read.
* `reply_single`: References are made of an In-Reply-To "containing a single message
  identifier" (simvacation.c:491-495), but line 500 asks only that it has text.
* `sender_null`: a response MUST NOT be sent to the null address (vutil.c:207-209),
  but check_from compares the ends of addresses (line 254), and the empty one ends
  with no name of its list.  Only the spelling `<>` is refused.

Others were met while modelling.  The models follow the code in each of them;
no run is spent on it:

* "Any value other than "no"" (simvacation.c:217) is compared in two characters (line
  227): "none" and "notify" are answered.  `++p` before the first test (line 222)
  passes over the character next to the colon: "Auto-Submitted:xno" is answered as
  well, "Auto-Submitted:x" ends the reading like an empty line, and
  "Auto-Submitted:no" is not answered although it may be.  The run `headers` has lines
  of each kind, and `headers_auto` would fail on the first three as well.  `Mistaken`
  and `Swallowed` name them where `ForbiddenUnlessHidden` excepts them, and
  `SuppressedForCause` names the last.
* "The order of these values in the header is not important." (simvacation.c:304),
  but only the line with the field's name is searched: a value of
  X-Auto-Response-Suppress on a continuation line is passed over.
* The parent's Message-ID is added to References "(if any)" (simvacation.c:490), but
  lines 499 and 501 print it without asking: with References or In-Reply-To and no
  Message-ID a null pointer is printed (`NullText`).
* "expire entries after 7 days" (vdb_redis.c:122), but SET and EXPIRE are two commands
  whose results are ignored (lines 121, 123).  If the second fails, or its
  sender is killed before it, the record has no time to live and stays.
* The comment has a key of at most 511 bytes, but `yaslrange(ret, 0, 511)` keeps 512
  (vdb_lmdb.c:249-250).
* The branch "This shouldn't happen" (vdb_redis.c:97) is taken whenever the
  interval is shorter than 7 days, as in simvacation.conf:7.
* -f is optional by the usage message (simvacation.c:90); without it canon_from
  reads through a null pointer (vutil.c:139).
* An SRS1 address is cut at its first "==", or else "=-", or else "=+"
  (vutil.c:157-159), not at the first of the three.  If the first forwarder wrote
  "-" or "+", and a pair that is looked for earlier stands further on, say in a
  local part like -=b, it is cut there, and the sender is taken for somebody else.
  `CheckFrom` calls such an address `Ambiguous`; the two properties of the sender
  except it.
* A name of the recipient that has a period or an underscore in it is found
  nowhere, for in the text searched both have become blanks (vutil.c:113-115).  The
  name of the field is searched with its value, and a name folded over two lines
  is not found; `FoundWhereNamed` says exactly what is.
* The recipient that replaces "$R" is one string, however many times it is asked
  for, and pexecv cuts the directory off the command where it stands
  (vutil.c:63-65).  A configuration whose command is "$R" itself would therefore
  change the recipient in every other "$R"; `RecipientIsOneWord` excepts it.
* realloc's result is used unasked (simvacation.c:412-413): without memory the run
  writes through a null pointer, with the reply recorded and not sent.

## 6. What is not modelled

* Operations of the string library that nothing calls: yaslstrip, yaslsplitlen,
  yaslcmp, yaslfromlonglong.
* The configuration's parsing, which is libucl's, and the generated defaults;
  that it fails is an outcome of `Start`.
* The wording of the reply, and of a name and display name made from an entry:
  values are read and nothing is changed.
* What becomes of a hand-off without a command: an empty or refused core.sendmail
  leaves no argv[0] to execute.  `YaslSplitargs` ends there ("crashed").
* The guard of 13 characters on SRS addresses (vutil.c:144), which whatever a
  forwarder writes passes.
* Taggers on a quoted local part.  BATV and Barracuda write around the address as it
  is, quotes included; `Tag` leaves quoted local parts alone, so what canon_from
  makes of `prvs=hash="..."` is not examined.
* The recipient that does not fit into `filter[64]` (vlu_ldap.c:289).  What sprintf
  writes behind it is undefined; of the outcomes `Simvacation.Search` has the fault,
  and `VluLdap` none.
* The parsing of an entry's times (ldap_vlu_time).  `VluLdap` takes them as numbers,
  with 0 for one that is absent or does not parse.
* The single calls of lmdb_init and redis_init.  They change nothing that outlives
  the process, so that they succeed or fail is one step (`VdbInit`); `Init` of the two
  modules is the database as the first process finds it.
* A header whose last line is "Auto-Submitted:" without a newline: the code
  reads one byte behind the NUL, what an earlier line left in the buffer.
* Reconnecting and time-outs inside the Redis client and the LDAP library: to a
  living client a command succeeds or fails.
* LMDB, Redis, the LDAP server, the kernel and libc, beyond what the code uses of
  them.
* Build, packaging and tests: no state when the programs run.

## 7. Plan

Done, in this order: the ledger; the pipeline with the null backend; LMDB with
the cleanup job; Redis; the header reader; the sender; the directory; the
fingerprint and the keys; the reply; the proofs of these; the hand-off call by
call; late Redis commands; the strings and the command line; the recipient's
names and both directories; the proofs of section 4 about each of them.

What is left is smaller: `RcptMatch` over the lines that `ReadHeaders` collected,
instead of lines of its own.
