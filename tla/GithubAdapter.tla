----------------------------- MODULE GithubAdapter -----------------------------
(* The tools of the GitHub adapter. *)
EXTENDS ToolPlans

githubGet == Reading

githubPost == Writing

getUser == Unchecked(<<githubGet>>)

listRepos == Unchecked(<<githubGet>>)

listIssues == Unchecked(<<githubGet>>)

createIssue == Unchecked(<<githubPost>>)

listNotifications == Unchecked(<<githubGet>>)

listStarred == Unchecked(<<githubGet>>)

(* How the descriptions mark them. *)
Tools == [READ |-> {"get_user", "list_repos", "list_issues", "list_notifications",
                    "list_starred"},
          WRITE |-> {"create_issue"}]

Execute == [get_user |-> getUser, list_repos |-> listRepos, list_issues |-> listIssues,
            create_issue |-> createIssue, list_notifications |-> listNotifications,
            list_starred |-> listStarred]
=============================================================================
