# Specifications of the elc-go backend

TLA+ models of the backend in `src/` (Go, chi, pgx, PostgreSQL), TLC runs that
check them on small instances, and theorems that TLAPS proves for every value of
their constants. The sources are the reference: `PROJECT.json` maps every
definition that models code to its file and lines.

## The system

One process serves the public shop and its admin panel. Every request is a
goroutine. A use case (`internal/*/application`) reads an entity, changes its
copy, and writes it back, one SQL statement after the other. Unless a repository
opens a transaction itself, nothing ties these statements together: no lock, no
version column, no condition on what was read (`UPDATE ... WHERE id`). The
database adds triggers (`internal/*/migrations`), unique indexes, and row locks
under READ COMMITTED. Outside the process there are nginx, which rewrites its
redirect map from the table every two minutes, GA4, which answers or does not,
and `cmd/retry-ads-conversion-sync`, run by hand or by cron.

| Component | State | Operations | Hard because | Correct when |
|---|---|---|---|---|
| redirect | table `redirects` | admin create, update, delete; slug-change trigger | five statements per create, three per slug change, walks a table others change, may stop anywhere | keys hold, no self-redirect, one hop for visitors, no loop |
| slug-registry and its triggers | `slug_registry`, slug and `deleted_at` of every content table | create, rename, restore, delete inside transactions | the check reads committed rows only, the claim waits and then overwrites | a registry row names live content, live content is found, nobody loses a slug |
| URLs of content | content pages and `redirects` together | publish, rename, delete, restore | paths are reused, redirects come before pages | a path that led to a page keeps leading to it, in one hop |
| category, group, project type, project, service, news | slugged rows, the foreign keys and join tables between them | create (which may revive a deleted row), edit with replaced links, delete with its cascade, restore, lists | rows written back whole, a cascade of several statements, links in a second transaction | a revived row was deleted and nobody else's, no live category stands under a deleted group and no project has a deleted type, an edit stores what was asked, public lists open |
| page, branch, faq, contact, brand, landing page (hp-page), product line, review | single rows, some with links | the same, without revival; branches, questions and contacts are deleted for good | the same | the same |
| product, review workflow | `products`, variants, attribute values, display cache | create, update, five review decisions, delete, restore | whole rows read and written back by overlapping requests | nothing public without approval, one default variant, prices in range, values fit the category |
| product, catalogue | values and `facet_tokens` | the filtered list, its facets, the suggested ranges | tokens denormalised from values; each facet leaves its own filter out | a count is what choosing finds, a product is found by what its page shows |
| attribute | definitions, their categories | create, update, delete, restore, attach, detach | codes used again, types that differ, products that keep values of what was deleted | as the catalogue |
| inquiry, status | `inquiries` | status and note, push to GA4, retry command | lost answers, crashes between push and record, stale copies | recorded only if answered, pushed only if converted, a failed push is found again |
| inquiry, clicks | `inquiries.interest_history` | contact click | find, then insert or rewrite | nothing lost, no duplicate |
| adsconversion, retry command | none of their own | one push; a list of pushes | timeouts, refusals | the run ends |
| auth | `users`, `sessions`, `verification_tokens` | sign-in, refresh, logout, account management | rows read before a login written back after it, tokens redeemed twice | no rank from nowhere, only managers change an account, a disabled one is out, one session per link or token |
| platform | limiter windows | `Allow`, eviction | clock edges | not modelled |
| event, recently-viewed, contentvar, settings, upload | single rows, or none | one statement each | | not modelled |
| cmd/server, cmd/seed-admin, deployment files | none | wiring | | not modelled |

## Modules

`RedirectTable` holds the rows of `redirects` and the SQL statements on them as
operators; `Redirects` runs the admin requests and slug changes over it. A slug
change is a transaction (`chg`): the trigger's DELETE, UPDATE and INSERT are steps
of their own (`RenameSlug`, `FindMoves` and `MoveRows`, `RecordRename`), each on
what is committed when it starts and what the transaction wrote itself (`View`),
and nobody else sees them before `CommitRename`. An UPDATE of many rows is two
steps, finding them and writing those that still match, and a write waits for a row
or a source that another transaction holds (`FreeFor`, `SourceFreeFor`). `ContentUrls`
composes the same trigger with the life of content pages; there it is one step
(`RenameRows`), so that slug changes take turns. `SlugRegistry` is the registry
with its transactions. `VariantTree` holds the pure rules of a product's variants (default, list price, display cache);
`Products` the requests over them. `Conversions` is the status of leads with
push and retry; `ContactClicks` the creation and refreshing of leads by clicks.
`Accounts` is signing in, staying signed in, and the management of accounts. There
an account is its email (its change is left out, with rate limits and the listing
of users), an expired link counts as spent and an expired session as ended, and
`managers` are the holders of an unexpired admin access token: such a token stays
good whatever happens to the account, and `UpdateUser` asks for the actor's rank
but not whether the actor is still active (`StartManage`).

`ContentTables` is what fourteen content tables have in common: the repositories
of the backend are written after one pattern, so each statement of the pattern is
one operator (`CheckSlug`, `Revive`, `Insert`, `Read`, `WriteBack`, `SoftDelete`,
`Restore`, `Remove`), with the row locks and unique indexes of PostgreSQL around
it. Above it, one module per family of tables says which table does what, with
which inputs and links: `Taxonomy` (groups, categories, the cascade), `Portfolio`
(project types, projects, services, their join tables and public filters),
`Articles` (news, pages, branches, questions, contacts) and `Storefront` (brands,
landing pages, product lines, reviews). `Site` composes them in one database. A
key belongs to one table; `table` never changes and is chosen at the start, so
that one run covers many small sites. A row is its slug, the one foreign key it
holds (`up`), a field for everything else (`on`, which is `is_published` where
the table has it) and its `deleted_at`; all many-to-many tables are `links`.

The links of a service are set by a second transaction in two statements,
`ClearCategories` (the DELETE, which sees what is committed) and `SetCategories` (the
INSERT, and the commit): `req[r].found` is what the first deletes. `Siblings` and
`Neighbours` take the type that the page asks for, which need not be the project's.

`NumberBuckets` is the arithmetic of the ranges suggested for prices and number
attributes. The code computes them in float64. A number is an integer here, in a
unit far below the last decimal entered, and three constants say where rounding
makes a difference: `Low` (a fraction that comes out below the limit it equals),
`Short` (a quotient that comes out below a whole number) and `Drift` (a unit more
or less in a start). The theorems hold for any value of them that keeps a rounding
error small beside a step. `Catalog` is the filtered product list with its facets, over
definitions and products that the staff edits meanwhile: an edit of a product is
read, validated and stored in three steps, and its tokens are written with its
values.

Two modules say what is promised, without saying how. `SlugDirectory` is a map
from slugs to owners in which only the owner gives a slug up; `SlugRegistry`
implements it (`ImplementsDirectory`). `VisitorPaths` is what visitors see: which
content a path leads to and which path a page is at; `ContentUrls` implements it
(`LinksKept`).

In all of them a variable named after a table is that table, `req`, `staff`,
`retry`, `click` or `tx` is what a goroutine or transaction holds in memory
between two statements (`saving` in `Catalog`), and an action is everything from
one statement to the next. Each `Abandon`, `DropClick`, `StopRetry` or `Abort` is a request that ends
early: the client goes away, a statement fails, the process stops.

### What must not overlap

Every specification lets everything interleave. Some properties hold under all
interleavings; others hold only for rows that no two requests worked on at once,
because the code holds nothing between its read and its write. Instead of a
second, sequential specification, the modules remember the overlaps in a history
variable that no guard reads, and the property speaks of everything else:

| Variable | Holds | Properties it limits | What happens otherwise |
|---|---|---|---|
| `Redirects.past` | whether requests or slug changes overlapped, a request stopped, one switched a redirect back on | `FlatWhenIdle`, `LoopFree` | two creates, a to b and b to a, resolve before either inserts: a loop. A request that stops before `Repoint` leaves a chain. A redirect made between two statements of the trigger leaves either |
| `Redirects.chg[t].overtaken` | whether somebody redirected the new path of a slug change behind its DELETE | `NoSelfRedirect` | its UPDATE turns that redirect into one from the new path to itself, the CHECK refuses it and the slug change fails |
| `SlugRegistry.crossed` | slugs two transactions were after at once | `RegistryComplete`, `ImplementsDirectory` | both pass the check and the later claim overwrites the earlier |
| `ContentUrls.behind` | pages put at a path that already redirects | `LiveReachable` | the page is live, the redirect comes first |
| `Conversions.crossed` | leads held by two at once | `PushPerConversion`, `FailedPushRetriable` | two status requests push one conversion twice; a late click clears the id of a lead converted meanwhile and the retry query misses it |
| `ContactClicks.overlapped` | visitors whose clicks overlapped | `TrailKept`, `NoDuplicateLead` | one touch is lost; two leads are created (`TrailNeverErased`, `NeverDuplicated` fail) |
| `Accounts.crossed` | users two requests held at once, or whose request stopped before it locked a link or ended sessions | `ChangedByManagers`, `HighestRankKept`, `DisabledEndsSessions`, `OneSessionPerProof`, `LockedLinkOpensNothing` | a sign-in writes back the role and status it read before a manager changed them; two refreshes with one token both open a session; a sign-in stores its session after the cut-off (`DisabledOpensNothing` fails); a request that stops before it locks a link leaves it live (`LockedAfterMax` fails); two managers demote each other |
| `req[r].seen` in `Site` | the rows others wrote between a request's read and its write | `AsAsked` | an edit writes back the columns it read over another's |
| `Site.claimed` | references written since their target was deleted or read for deletion | `CascadeComplete`, `TypeReleased` | a category created in a group while the group's deletion is under way stays live under it; a project takes a deleted type, since no foreign key looks at `deleted_at` |
| `Products.crossed` | products held by two at once | `ValuesFit`, `AlongWorkflow` | two valid edits combine into values that do not fit; an edit writes back the status of before a decision |

`Site.asked` is a history of another kind: what the staff asked for last, field by
field, that `AsAsked` compares the stored row with. Its links are `Unsure` for a
service whose second transaction failed, or began beside another: the request that
failed answers an error and leaves the service stored without the links, and two
that overlap leave the union of both (`CategoriesReplaced` fails).

The theorems are therefore about the same, fully concurrent `Spec` as the runs.

## Runs

| Run | Instance | Shows |
|---|---|---|
| `MCRedirects` | 3 paths, two workers with an admin request or a slug change each, 5 keys, a walk of two hops | no admin statement asks for a redirect to itself, and the trigger is refused one only when it was overtaken; flat while requests take turns, loop-free even after one that stopped |
| `MCRedirectsReactivate` | 3 paths, one admin, 4 keys, the walk of the code | finding: a redirect switched back on closes a loop |
| `MCSlugRegistry` | 3 rows in 2 tables, 3 slugs, 3 transactions | sound always, complete and a directory for slugs not crossed |
| `MCSlugRegistryShared` | 2 transactions | finding: two tables share a slug |
| `MCContentUrls` | 3 pages, 4 paths | flat, reachable, links kept |
| `MCConversions` | one lead, two status requests, a retry run, a click, fairness | recorded only if answered, pushed only if converted, once, found again; the retry run ends |
| `MCConversionsReopened` | one lead, one request | finding: a reopened lead is pushed again |
| `MCContactClicks` | two visitors, history cut at 2 | last touch last; trail kept and no duplicate for clicks one after the other |
| `MCAccounts` | an admin with Google, a member with one link, two requests, two sessions | rank bounded; for accounts not crossed: disabled ones out, one session per proof, locked links useless, changes by managers only, highest rank kept |
| `MCProducts` | one product, two requests, two categories, two attributes, four variant trees, two of them refused | approval, no note, workflow, values; one default, price in range, no sale price of 0 listed |
| `MCSite` | seventeen sites of two or three keys, two slugs, two requests | revival takes only what is deleted and free; the cascade leaves no category and a deleted type no project behind; an uncrossed edit stores what was asked; public lists, filters and neighbours open |
| `MCCatalog` | two products in two categories, two brands, three definitions of which two share a code, five forms, five filters | counts are what choosing finds; found as shown; every price in one range, and every number but a least one that rounding leaves out |

### Bounds, and why they are enough

- The four trees of `MCProducts` are none, one the code refuses, one whose default
  comes after a component and an inactive variant, and one whose default has the
  sale price 0 between a cheaper and a dearer variant; `ProductsProofs` is about
  trees of any length.
- A loop of redirects needs two paths, a chain that is repointed three. Rows
  never interact except through equal paths.
- `MaxChainDepth` is 10 in the code. It is 10 in the run that looks for a loop and
  2 in the one where two admins overlap, so that a walk reaches its bound. Four
  paths, switched-off redirects and longer walks are covered by the theorems.
- Three slugs and three rows let one transaction release what a second claims
  while a third waits; two tables are needed since a table's own index already
  forbids two live rows.
- Rows of `inquiries` and `products` are independent of each other, so one lead
  or product with two requests reaches every interleaving on it. `CountCap`
  bounds the counts of pushes and conversions, two tell one from many.
- A site of three keys is the least with a cascade over two categories, a project
  between its type and a category, or, in `MCSiteLinks.cfg`, a service whose two
  categories can be linked apart. The others are the pairs of tables that share a slug, a reference or a
  join, the product lines of a brand, and what a review may be of. Two slugs let a rename, a revival and a conflict happen; a third would
  only be another free one. `Flags` is what a form may send for `on`: TRUE, the
  publish toggle sends both.
- In `MCCatalog` the thresholds of `NumberBuckets` are 1 (8 and 5 in the code), so
  that two different values already make ranges; the theorems hold for any. Numbers
  are 20, 30 and 50, with a rounding in every place the code rounds, among them a
  start above the least value. The forms cover a number, a multiselect, a select
  that takes over the multiselect's code, a repeated option, prices given, none and 0, an edit that sends everything
  and one that sends values only. The filters are none at all, and brands, ranges,
  categories, prices and options in pairs, so that each facet has a filter of its
  own to leave out and one of another kind to keep.
- `MaxAttempts` is 5 in the code and 2 here: one wrong code below the limit, one
  at it. Of two accounts one starts above the other, so that a role can be
  granted, asked for above one's own, or taken away; two sessions are a refresh
  token and its successor, or two logins. `AttemptsCap` is where a count of wrong
  codes stops mattering.
- `LeadIds`, `Ids` and `Clicks` are consumed; when none is left the remaining
  actions go on. The runs keep deadlock checking on: no model gets stuck.
- Symmetry is used on paths, slugs, staff, clicks and requests, which no
  definition orders, and only in runs without liveness.

### Fairness

`RetryEnds` assumes that the retry command takes its next step: a statement
returns or fails, and its HTTP client gives up after five seconds. It is weak
fairness of that process alone. Nothing is assumed of admins, visitors or GA4.
Every other property is about what may never happen, and needs no fairness.

### Findings

Three runs expect a violation, each of a sentence the repository writes down:

- `NeverCircular`: the trigger's migration says it keeps the table flat and
  loop-free; `UpdateRedirect` switches a redirect on without resolving again.
- `UniqueLiveSlugs`: the registry's triggers are said to enforce uniqueness
  across all entity types; they read before they claim.
- `PushedOnce`: a sale is said to be pushed exactly once; a lead reopened and
  converted again is pushed again.

### Further disagreements

Seven more sentences of the repository do not hold. Each is a property beside the
one that does hold, which says less, with a configuration in which TLC refutes it:

| Property | Configuration (of module) | The repository says | The model shows |
|---|---|---|---|
| `NeverDuplicated` | `MCContactClicksDoubleTap.cfg` (`MCContactClicks`) | a repeat click refreshes the open lead "instead of creating a duplicate" (`record_contact_click.go:13-17`) | two clicks that overlap both find none and make two |
| `TrailNeverErased` | `MCContactClicksErased.cfg` (`MCContactClicks`) | the trail survives "instead of each one erasing the last" (`inquiry/domain/types.go:312-313`) | of two clicks that overlap the later write erases the other's touch |
| `DisabledOpensNothing` | `MCAccountsLateSession.cfg` (`MCAccounts`) | disabling "should end its access immediately, not just at its next access-token expiry" (`update_user.go:68-69`) | a sign-in under way opens a session after the sessions were ended |
| `DisabledManagesNothing` | `MCAccountsDisabledActs.cfg` (`MCAccounts`) | the same sentence | a disabled admin manages accounts with the access token still held |
| `LockedAfterMax` | `MCAccountsUnlocked.cfg` (`MCAccounts`) | `magicLinkMaxAttempts` locks a link out after that many wrong codes (`verify_magic_link.go:11-12`) | a request that stops between counting and locking leaves it open to the right code |
| `CategoriesReplaced` | `MCSiteLinks.cfg` (`MCSite`) | "SetCategories replaces the service's category links in one transaction" (`service/infrastructure/postgres_repository.go:315`) | two that overlap leave the union, as neither sees the other's inserts |
| `FewPricesExact` | `MCCatalogPrices.cfg` (`MCCatalog`) | "exact distinct prices if few enough" (`product/domain/types.go:623-624`, `number_bucket.go:8-10`) | two prices or more always come as tiers |

The last column of the table under "What must not overlap" lists what else happens
when requests overlap. Three observations need no overlap. A start that float64
puts above the least value leaves that value out of every range: `BuildNumberBuckets`
gives the step 0.1 and the least value 1.7 the start 1.7000000000000002
(`TilesAbove`); no sentence promises that ranges cover all values. `price_min` and
`price_max` are called "always populated in practice"
(`product/domain/types.go:125-128`) and are NULL for a product whose variants are all
inactive. The comment of `computeCategoryFacets` (`facet_repository.go:87`) promises
nothing for a page of zero or one category; the code leaves the facet out for zero
only (`CategoryFacet`).

## Proofs

| Module | Theorem | For every ... |
|---|---|---|
| `RedirectsProofs` | `TableTyped`, `NeverSelf`, `NeverLoops`, `AlwaysFlat` | set of paths, keys, requests, depth of the walk |
| `SlugRegistryProofs` | `RegistryTyped`, `NeverStale`, `AlwaysFound`, `DirectoryKept` | set of tables, rows, slugs, transactions |
| `AccountsProofs` | `TypeCorrect`, `NobodyOutranks`, `DisabledOut`, `TicketsOnce`, `LockedOut`, `OnlyManagersChange`, `HighestStays` | set of users, links, sessions, requests, first ranks |
| `ContentUrlsProofs` | `UrlsTyped`, `TriggerFlat`, `NeverHidden`, `LinksSurvive` | set of paths, entities, page titles |
| `ConversionsProofs` | `TypeCorrect`, `SyncedOnlyAnswered`, `PushedOnlyConverted`, `PushedOncePerTurn`, `FailedStaysPending` | set of leads, status requests, retry runs, clicks, cap of the counts |
| `ConversionsProofs` | `ClicksTypeCorrect`, `LatestStays`, `TrailSurvives`, `NoDuplicates` | set of visitors, clicks, lead keys, cap of the history |
| `SiteProofs` | `TypeCorrect`, `Resurrection`, `Cascade`, `Release`, `PagesOpen`, `Asked` | set of keys, slugs, requests, any site |
| `CatalogProofs` | `CountedOnce`, `CountedSomewhere` | values, bounds, step and rounding |
| `CatalogProofs` | `AlwaysFresh`, `AlwaysFoundAsShown`, `CodesNeverShared`, `CountsRight`, `AlwaysTile` | finite catalog, set of categories, forms, filters, requests, number of ranges |
| `ProductsProofs` | `ProductsTyped`, `NeverUnreviewed`, `NeverNoted`, `AlwaysListed`, `AlwaysInRange`, `AlwaysFit`, `OnlyWorkflow` | set of products, requests, categories, attributes, and trees of any length |

The assumptions are those the modules name: `PathAssumption`,
`ExternalAssumption`, `ParameterAssumption`, `KindAssumption`,
`AbsentAssumption`, `AttributesAssumption`, `TreesAssumption`, `UsersAssumption`,
`WaysAssumption`, `RankInputsAssumption`, `NumbersAssumption`,
`AttemptsAssumption`, `CapAssumption`, `NoLeadAssumption`, `TablesAssumption`,
`BucketAssumption`, `RoundingAssumption`, `NothingAssumption`, `IdsAssumption`,
`LeadIdAssumption`, `HistoryAssumption`, `VisitorAssumption`, `FormsAssumption`,
`FiltersAssumption`. They say what the constants are, nothing about behaviour;
`RoundingAssumption` says that a start drifts by one unit at most, and only where a
step is at least three. The last two say that a
catalog is finite, that a form gives numbers for prices and number attributes and
finite lists for options, that no price exceeds 10^`MaxExponent`, the bound that
stands for the code's unbounded search for a nice number, and that a filter has
seven fields.

**Redirects.** `TypeOK` is inductive once it says what a request holds at each
stage (`Staged`, `Disciplined`). `NoSelfRedirect` needs more: a request about to
insert or repoint holds a target different from its source, and what a slug change
has written and not committed is sound (`Sound`): each of its rows either replaces a
row that is in the table and locked (`Behind`), or has a key and a source nobody else
has (`Inserted`), and no two transactions write one source (`Apart`). So a commit
keeps both keys. A row whose source is the new path is in the table after the DELETE
only if somebody put it there since (`Ahead`), which is what `overtaken` remembers.
While slug changes and requests take turns, a commit is the trigger as one step
(`RenameRows`). Freedom from loops is stated
over sets of paths that trap a visitor, so that no path needs to be followed by
recursion; it is inductive together with what `Settle` leaves behind, that the
target a lone request holds does not redirect. `TurnsInv` and `FlatInv` carry
these facts for the histories with no overlap.

**SlugRegistry.** A live registry row names live content because every write of
a row's slug or deletion also releases what the row held (`SoundInv`).
Completeness needs the locks: two transactions that hold claims on one slug have
crossed it (`RivalsCrossed`), and a transaction that is about to claim has its
row locked (`RowLocks`). `CompleteInv` joins these. The refinement maps each slug
to its holder and shows that every step is one of the directory's or none.

**Products.** What makes the invariants inductive is what requests hold: a row
to be written back with a public status is clean, and approved or being approved
(`CatalogueInv`); a tree has one default and no negative price (`WellFormed`).
That a tree of any length has a least and a greatest price is proved by descent
to a least counterexample (`NatMinimum`, `PricesBounded`, `NatMaximum`). For
products not crossed, the one request that holds the product agrees with the
stored row (`FreshInv`).

**Accounts.** The rank bound is not inductive on the table alone: rows in memory
are written back, and a manager's rank is remembered after it was read. The
invariant bounds the rows that requests hold and the rank a manager acts with
as well, and says that holders of an admin token have an account (`IInv`). The
other properties speak of accounts that no two requests held at once, and `UInv`
says what the one request that holds such an account knows. Its ticket, a link or
a refresh token, is unused while the request has it, belongs to the account, and
is gone from the tables before a session opens with it (`Tickets`,
`TicketsAlone`); a link guessed at too often is already locked or a request is
about to lock it. The row it read is the row stored, so a late write of the whole
row changes nothing but what the request is about; a write that disables is
followed by the cut-off; and a manager's rank, stored, still covers the target's
(`Rows`, `RowsAlone`). Nobody manages themselves, so the manager keeps the highest
rank when the target loses it.

**Conversions.** A request or a run works on what it read, so the invariant says
what each holder still knows of its lead: whoever sends or records knows that
the lead was converted, whoever records knows that a push was answered
(`Known`). For a lead nobody held twice there is more (`Alone`): one status
request has it at a time, so what it read is still stored and its push is
counted against the turn that caused it; and a click that found the lead open
still finds it open, so the id it overwrites is not a conversion's. The theorems
are of `Spec`, which `FairSpec` strengthens.

**Site.** Fourteen tables share the operators of `ContentTables`, and so does the
proof: `TableStepKeeps` says which writes of rows, links and claims keep the
invariant, each operator is shown to be such a write once (`PutKeeps`,
`WriteBackKeeps`, `RowStepKeeps`, and the three deletes that cascade), and the
steps of the tables cite them. The invariant adds to the properties what requests
hold. `Locked`: a create holds the deleted rows with its slug, no two hold the
same one, and a write needs the row free; this is what `FOR UPDATE` is for.
`Cascading`: every live category of a group under deletion was read by that
deletion or was put there since. `Released` is `CascadeComplete` and
`TypeReleased` row by row.

Two more properties stand on that invariant. `Step` is what any action does to the
rows: one form per kind of statement, so that forty-odd actions are a few cases to
`SlugsUnique` and `AskedInv`. `PagesOpen` needs that no two live rows of a table
share a slug (`SlugsUnique`: the partial unique indexes) and that links point the
right way; the rest is what the queries select. `Asked` is inductive once it says
what the staff's last wish has to do with a request under way: an edit whose row
nobody wrote since it read holds the row as stored (`ReadAs`, `KnowsStored`), so
that the columns it writes back are those wished for. The links of a service are
left out while its second transaction is pending; when that one was alone with the
service, what it deletes is what is stored and what it inserts is what was wished
for.

**Catalog.** The tokens of a product are always those of its stored values
(`TokensFresh`), since one transaction writes both. The list sees tokens and the
page sees values, so found and shown agree but for deleted definitions. The
ranges do not overlap because their starts rise (`StartsRise`): a drift of one unit
is less than a step. A value from the first start on falls into the last range that
starts at or below it (`LastStart`), and the first start is at most a unit above the
least value (`FirstStart`), so that no other value can be left out.

That a count equals what the choice finds rests on `FacetInv`: live definitions
have distinct codes, so what passes validation has each code once; a request
keeps the values it validated, whatever becomes of the definitions; and a product's
values are replaced as a whole. So no product has two values under one code
(`CodesNeverShared`), and the values counted are in one-to-one correspondence with
the products found (`OnePerProduct`), those of a range with some of them. The
filter side is that choosing adds to a filter exactly what the facet left out of it
(`MatchesBrand`, `MatchesPrice`, `MatchesOption`, `MatchesRange`). The last range is
closed because the greatest value is one of the values (`HasMax`), and a range is
wider than nothing because a step is at least one (`NiceNumberPositive`).

`AlwaysTile` adds up counts, and the sum is a fold. That the fold is one bucket plus
the sum of the others, for a finite set of any size, is proved by descent on the
number of buckets (`SumExists`, `SumIs`; `AllNaturals` is induction stated for a set,
which the provers can use); a sum of disjoint parts is then the size of the whole
(`SumOfParts`). The buckets are disjoint and leave nothing out: `CountedOnce` and
`CountedSomewhere` for the ranges, over all values or all but the least
(`NumbersTile`), `PricedOnce` and `PricedSomewhere` for the price
tiers, whose bounds are shown to enclose the prices (`NiceBounds`).

**ContentUrls.** The proofs see the redirects as edges from path to path
(`Sends`). `RenameEdges` says once which edges the trigger leaves: old to new,
whatever led to old to new, none from new. Flatness and reachability follow edge by
edge, given that no two live pages share a path. The refinement maps the edges and
pages to what a visitor sees and shows that every step is one of `VisitorPaths` or
none.

**ContactClicks.** A click in flight that is alone with its visitor still knows what
it read: that the visitor has no open lead, or the trail of the lead it found
(`AloneKnows`). With the keys of leads in the order they were made (`Bounded`), the
newest lead is the one found, and the trail a click appends to is the trail stored
(`ClicksInv`). The module shares no names with `Conversions`, so one proof module
serves both.

Left to TLC: liveness (`RetryEnds`), since fairness rests on ENABLED, and the
properties that are refuted. Every other property of a run is a theorem. No module
uses a RECURSIVE operator.

## Not modelled

- Texts, images, logging, headers and the JSON of requests: no property depends
  on them.
- Order and pagination of lists. Several lists are ordered by `order_index` or a
  date alone, so rows that tie may move between pages; a model of `LIMIT` and
  `OFFSET` over an order PostgreSQL does not promise would show only that.
- `Catalog` leaves out the filters that are one more equality on the row (text
  search, product line, status, featured, category slugs, deleted rows included)
  and the sorting; each would be one more conjunct of `Matches`. Rounding is
  modelled where it moves a bound (`Low`, `Short`, `Drift`), at most by one unit,
  less than the difference of two values entered; the prices' tiers are integers
  that float64 holds exactly.
- Unique names. A name taken is one of the reasons a request is refused, and a
  refused request changes nothing (`Abandon`).
- The limiters, the event log, recently viewed products, content variables,
  settings and uploads: one statement, one counter under one mutex, or no state
  in the program.
- Stray fields of an attribute value: one carries the field of its data type and no
  other, as `product/domain/attribute_value.go:3-12` says.
- Reviews of products and the honeypot of the review form; edits of a lead's
  details; changes of an account's email.
- In `SlugRegistry`, the tables whose slug triggers differ from the common shape
  (projects, project types, services, news and pages keep slugs of deleted rows).
  `Site` has their unique indexes, but not the registry.
- The waits inside a unique index that can make two product updates deadlock until
  PostgreSQL aborts one: a product's write is one action.

## Plan

1. Extend `Conversions` with the details of a lead and the lost updates of its
   status.
2. The registry under `Site`: the slug triggers of all tables as one composition,
   with the registry rows that outlive a deleted row told apart.
