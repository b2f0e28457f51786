-------------------------------- MODULE Community --------------------------------
(***************************************************************************)
(* Discussions of a course: threads, their posts, and their moderation.     *)
(*                                                                         *)
(* A thread is stored with its opening post in one transaction; everything  *)
(* after that is single statements, each behind checks made by earlier ones. *)
(* Posts are never deleted: they and their threads are hidden and shown.    *)
(***************************************************************************)
EXTENDS Naturals, Sequences, SequencesExt, Services

CONSTANTS
    Courses,   \* courses with published content
    Threads,   \* identifiers of threads
    Posts      \* identifiers of posts

VARIABLES
    mode,       \* community.course_community.mode, set when the row is inserted
    moderators, \* users that published attribution names author or maintainer of a course
    thread,     \* community.thread, each with its rows of community.post by created_at
    visit       \* the requests in flight

communityTables == <<mode, moderators, thread>>

communityVars == <<mode, moderators, thread, visit>>

Visibility == {"VISIBLE", "HIDDEN"}

Post == [id : Posts, state : Visibility]

Thread == [course : Courses, state : Visibility, posts : Seq(Post)]

ASSUME CommunityAssumption == None \notin Courses \cup Threads \cup Posts \cup Thread

Visit == [step : {"idle", "opening", "reply", "threadState", "moderated", "inspected"},
          course : Courses \cup {None}, actor : Users \cup {None},
          thread : Threads \cup {None}, post : Posts \cup {None}, state : Visibility]

NoVisit == [step |-> "idle", course |-> None, actor |-> None, thread |-> None,
            post |-> None, state |-> "VISIBLE"]

CommunityInit ==
    /\ mode \in [Courses -> {"ENABLED", "DISABLED"}]
    /\ moderators \in [Courses -> SUBSET Users]
    /\ thread = [t \in Threads |-> None]
    /\ visit = [p \in Requests |-> NoVisit]

-----------------------------------------------------------------------------
PostsOf(t) == IF thread[t] = None THEN <<>> ELSE thread[t].posts

PostIds(t) == {PostsOf(t)[i].id : i \in DOMAIN PostsOf(t)}

UsedPosts == UNION {PostIds(t) : t \in Threads}

IsVisible(t, c) == thread[t] # None /\ thread[t].course = c /\ thread[t].state = "VISIBLE"

\* ORDER BY created_at, id: where the posts that participants see are in the thread.
VisiblePosts(t) == {i \in DOMAIN PostsOf(t) : PostsOf(t)[i].state = "VISIBLE"}

EndVisit(p) ==
    /\ visit[p].step # "idle"
    /\ visit' = [visit EXCEPT ![p] = NoVisit]
    /\ UNCHANGED communityTables

-----------------------------------------------------------------------------
(* Participation, open to every account *)

\* CreateThread: the course is published and its community enabled.
BeginThread(p, u, c) ==
    /\ visit[p] = NoVisit
    /\ mode[c] = "ENABLED"
    /\ visit' = [visit EXCEPT ![p] = [NoVisit EXCEPT !.step = "opening", !.course = c, !.actor = u]]
    /\ UNCHANGED communityTables

\* The thread and its opening post, in one transaction.
InsertThread(p, t, post) ==
    /\ visit[p].step = "opening"
    /\ thread[t] = None
    /\ post \notin UsedPosts
    /\ thread' = [thread EXCEPT ![t] =
          [course |-> visit[p].course, state |-> "VISIBLE",
           posts |-> <<[id |-> post, state |-> "VISIBLE"]>>]]
    /\ visit' = [visit EXCEPT ![p] = NoVisit]
    /\ UNCHANGED <<mode, moderators>>

\* CreatePost: the mode, then the thread as participants see it.
BeginPost(p, u, c, t) ==
    /\ visit[p] = NoVisit
    /\ mode[c] = "ENABLED"
    /\ IsVisible(t, c)
    /\ visit' = [visit EXCEPT ![p] =
          [NoVisit EXCEPT !.step = "reply", !.course = c, !.actor = u, !.thread = t]]
    /\ UNCHANGED communityTables

\* UPDATE ... WHERE state = 'VISIBLE' feeds the insertion of the same statement.
ActiveThread(p) == IsVisible(visit[p].thread, visit[p].course)

\* created_at is when the statement began: of two replies at once the one that is
\* stored second may be the older.  Both are younger than the opening post.
InsertPost(p, post) ==
    LET t == visit[p].thread IN
    /\ visit[p].step = "reply"
    /\ ActiveThread(p)
    /\ post \notin UsedPosts
    /\ \E i \in 2..(Len(PostsOf(t)) + 1) :
          thread' = [thread EXCEPT ![t] =
             [@ EXCEPT !.posts = InsertAt(PostsOf(t), i, [id |-> post, state |-> "VISIBLE"])]]
    /\ visit' = [visit EXCEPT ![p] = NoVisit]
    /\ UNCHANGED <<mode, moderators>>

-----------------------------------------------------------------------------
(* Moderation *)

\* Attribution in any published version of the course; no role of the instance helps.
MayModerate(u, c) == u \in moderators[c]

BeginModerateThread(p, u, c, t, state) ==
    /\ visit[p] = NoVisit
    /\ MayModerate(u, c)
    /\ visit' = [visit EXCEPT ![p] =
          [NoVisit EXCEPT !.step = "threadState", !.course = c, !.actor = u, !.thread = t, !.state = state]]
    /\ UNCHANGED communityTables

\* UPDATE ... WHERE course_id = $1 AND id = $2; a thread of another course is not found.
SetThreadState(p) ==
    LET v == visit[p] IN
    /\ v.step = "threadState"
    /\ thread[v.thread] # None /\ thread[v.thread].course = v.course
    /\ thread' = [thread EXCEPT ![v.thread] = [@ EXCEPT !.state = v.state]]
    /\ visit' = [visit EXCEPT ![p] = NoVisit]
    /\ UNCHANGED <<mode, moderators>>

ThreadForModeration(c, t) == thread[t] # None /\ thread[t].course = c

\* requireModerator and GetThreadForModeration.
BeginModeratePost(p, u, c, t, post, state) ==
    /\ visit[p] = NoVisit
    /\ MayModerate(u, c)
    /\ ThreadForModeration(c, t)
    /\ visit' = [visit EXCEPT ![p] =
          [step |-> "moderated", course |-> c, actor |-> u, thread |-> t, post |-> post, state |-> state]]
    /\ UNCHANGED communityTables

\* Mutant of IsOpening: the newest visible post is taken for the opening one.
IsNewest(t, post) ==
    \E i \in VisiblePosts(t) : (\A j \in VisiblePosts(t) : j <= i) /\ PostsOf(t)[i].id = post

\* The first of the visible posts is the opening one.
IsOpening(t, post) ==
    \E i \in VisiblePosts(t) : (\A j \in VisiblePosts(t) : i <= j) /\ PostsOf(t)[i].id = post

\* To hide it, hide the thread.
InspectPost(p) ==
    /\ visit[p].step = "moderated"
    /\ visit[p].state = "HIDDEN" => ~IsOpening(visit[p].thread, visit[p].post)
    /\ visit' = [visit EXCEPT ![p] = [@ EXCEPT !.step = "inspected"]]
    /\ UNCHANGED communityTables

\* UPDATE ... WHERE the post is of the thread and the thread of the course.
SetPostState(p) ==
    LET v == visit[p]
        posts == PostsOf(v.thread) IN
    /\ v.step = "inspected"
    /\ v.post \in PostIds(v.thread)
    /\ thread' = [thread EXCEPT ![v.thread] = [@ EXCEPT
          !.posts = [i \in DOMAIN posts |->
              IF posts[i].id = v.post THEN [id |-> v.post, state |-> v.state] ELSE posts[i]]]]
    /\ visit' = [visit EXCEPT ![p] = NoVisit]
    /\ UNCHANGED <<mode, moderators>>

\* A further version of a course is published, with its attribution.
AttributeModerators(c, authors) ==
    /\ moderators' = [moderators EXCEPT ![c] = @ \cup authors]
    /\ UNCHANGED <<mode, thread, visit>>

-----------------------------------------------------------------------------
CommunityNext ==
    \/ \E c \in Courses, authors \in SUBSET Users : AttributeModerators(c, authors)
    \/ \E p \in Requests :
          \/ \E u \in Users, c \in Courses :
                \/ BeginThread(p, u, c)
                \/ \E t \in Threads :
                      \/ BeginPost(p, u, c, t)
                      \/ \E state \in Visibility :
                            \/ BeginModerateThread(p, u, c, t, state)
                            \/ \E post \in Posts : BeginModeratePost(p, u, c, t, post, state)
          \/ \E t \in Threads, post \in Posts : InsertThread(p, t, post)
          \/ \E post \in Posts : InsertPost(p, post)
          \/ SetThreadState(p)
          \/ InspectPost(p)
          \/ SetPostState(p)
          \/ EndVisit(p)

CommunitySpec == CommunityInit /\ [][CommunityNext]_communityVars

-----------------------------------------------------------------------------
(* Properties *)

\* Every variable of the community has its type.
CommunityTypeOK ==
    /\ mode \in [Courses -> {"ENABLED", "DISABLED"}]
    /\ moderators \in [Courses -> SUBSET Users]
    /\ thread \in [Threads -> Thread \cup {None}]
    /\ visit \in [Requests -> Visit]

\* A post is hidden alone only if it answers another: every thread begins with a
\* visible post, whichever replies and moderators race.  The check looks at the
\* first visible post, so it relies on what it maintains.
OpeningPostIsShown ==
    \A t \in Threads : thread[t] # None =>
        thread[t].posts # <<>> /\ thread[t].posts[1].state = "VISIBLE"

=============================================================================
