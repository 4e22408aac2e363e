---------------------------- MODULE TwitterAdapter ----------------------------
(* The tools of the Twitter adapter, and Apify's search that main attaches to *)
(* it and to LinkedIn's.                                                      *)
EXTENDS ToolPlans

twitterGet == Reading

twitterPost == Writing

twitterDelete == Writing

createTweet == Checked(<<twitterPost>>)

deleteTweet == Checked(<<twitterDelete>>)

getMe == Unchecked(<<twitterGet>>)

(* A POST that runs a search and waits for its result; a body that is no    *)
(* list is an error.                                                        *)
RunActor == Needed(Reading)

searchPosts == Unchecked(<<RunActor>>)

(* How the descriptions mark them. *)
Tools == [READ |-> {"get_me"}, WRITE |-> {"create_tweet", "delete_tweet"}]

Execute == [create_tweet |-> createTweet, delete_tweet |-> deleteTweet, get_me |-> getMe]
=============================================================================
