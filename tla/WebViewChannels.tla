-------------------------- MODULE WebViewChannels ---------------------------
\* The channels and the codec of the host APIs of webview_flutter_view
\* (messages.g.cc).
EXTENDS PigeonChannels

WebResourceRequestDataClass ==
    Class("WebResourceRequestData",
          <<Must, Must, May, Must, Must, Must>>,
          <<Must, Must, May, Must, Must, Must>>)
WebResourceResponseDataClass ==
    Class("WebResourceResponseData",
          <<Must>>,
          <<Must>>)
WebResourceErrorDataClass ==
    Class("WebResourceErrorData",
          <<Must, Must>>,
          <<Must, Must>>)
WebViewPointClass ==
    Class("WebViewPoint",
          <<Must, Must>>,
          <<Must, Must>>)
ConsoleMessageClass ==
    Class("ConsoleMessage",
          <<Must, Must, Must, Must>>,
          <<Must, Must, Must, Must>>)

Classes ==
    {WebResourceRequestDataClass, WebResourceResponseDataClass,
     WebResourceErrorDataClass, WebViewPointClass, ConsoleMessageClass}

StandardSync(name, args, result) == Sync("Standard", name, args, result)
StandardAsync(name, args, result) == Async("Standard", name, args, result)

HostReadValueOfType ==
    Types(128, <<"WebViewPoint">>)

HostWriteValue ==
    Types(128, <<"WebViewPoint">>)

HostSync(name, args, result) == Sync("WebViewHostApi", name, args, result)
HostAsync(name, args, result) == Async("WebViewHostApi", name, args, result)

\* InstanceManagerHostApi
InstanceManager_Clear == StandardSync("InstanceManager.clear", <<>>, Void)

\* JavaObjectHostApi
JavaObject_Dispose == StandardSync("JavaObject.dispose", <<Req(Plain)>>, Void)

\* CookieManagerHostApi
CookieManager_AttachInstance ==
    StandardSync("CookieManager.attachInstance", <<Req(Plain)>>, Void)
CookieManager_SetCookie ==
    StandardSync("CookieManager.setCookie",
                 <<Req(Plain), Req(Plain), Req(Plain)>>, Void)
CookieManager_RemoveAllCookies ==
    StandardAsync("CookieManager.removeAllCookies", <<Req(Plain)>>, Plain)
CookieManager_SetAcceptThirdPartyCookies ==
    StandardSync("CookieManager.setAcceptThirdPartyCookies",
                 <<Req(Plain), Req(Plain), Req(Plain)>>, Void)

\* WebViewHostApi
WebView_Create == HostSync("WebView.create", <<Req(Plain)>>, Void)
WebView_LoadData ==
    HostSync("WebView.loadData",
             <<Req(Plain), Req(Plain), Opt(Plain), Opt(Plain)>>, Void)
WebView_LoadDataWithBaseUrl ==
    HostSync("WebView.loadDataWithBaseUrl",
             <<Req(Plain), Opt(Plain), Req(Plain), Opt(Plain), Opt(Plain),
               Opt(Plain)>>, Void)
WebView_LoadUrl ==
    HostSync("WebView.loadUrl", <<Req(Plain), Req(Plain), Req(Plain)>>, Void)
WebView_PostUrl ==
    HostSync("WebView.postUrl", <<Req(Plain), Req(Plain), Req(Plain)>>, Void)
WebView_GetUrl == HostSync("WebView.getUrl", <<Req(Plain)>>, Plain)
WebView_CanGoBack == HostSync("WebView.canGoBack", <<Req(Plain)>>, Plain)
WebView_CanGoForward == HostSync("WebView.canGoForward", <<Req(Plain)>>, Plain)
WebView_GoBack == HostSync("WebView.goBack", <<Req(Plain)>>, Void)
WebView_GoForward == HostSync("WebView.goForward", <<Req(Plain)>>, Void)
WebView_Reload == HostSync("WebView.reload", <<Req(Plain)>>, Void)
WebView_ClearCache ==
    HostSync("WebView.clearCache", <<Req(Plain), Req(Plain)>>, Void)
WebView_EvaluateJavascript ==
    HostAsync("WebView.evaluateJavascript", <<Req(Plain), Req(Plain)>>, Plain)
WebView_GetTitle == HostSync("WebView.getTitle", <<Req(Plain)>>, Plain)
WebView_ScrollTo ==
    HostSync("WebView.scrollTo", <<Req(Plain), Req(Plain), Req(Plain)>>, Void)
WebView_ScrollBy ==
    HostSync("WebView.scrollBy", <<Req(Plain), Req(Plain), Req(Plain)>>, Void)
WebView_GetScrollX == HostSync("WebView.getScrollX", <<Req(Plain)>>, Plain)
WebView_GetScrollY == HostSync("WebView.getScrollY", <<Req(Plain)>>, Plain)
WebView_GetScrollPosition ==
    HostSync("WebView.getScrollPosition", <<Req(Plain)>>, "WebViewPoint")
WebView_SetWebContentsDebuggingEnabled ==
    HostSync("WebView.setWebContentsDebuggingEnabled", <<Req(Plain)>>, Void)
WebView_SetWebViewClient ==
    HostSync("WebView.setWebViewClient", <<Req(Plain), Req(Plain)>>, Void)
WebView_AddJavaScriptChannel ==
    HostSync("WebView.addJavaScriptChannel", <<Req(Plain), Req(Plain)>>, Void)
WebView_RemoveJavaScriptChannel ==
    HostSync("WebView.removeJavaScriptChannel",
             <<Req(Plain), Req(Plain)>>, Void)
WebView_SetDownloadListener ==
    HostSync("WebView.setDownloadListener", <<Req(Plain), Opt(Plain)>>, Void)
WebView_SetWebChromeClient ==
    HostSync("WebView.setWebChromeClient", <<Req(Plain), Opt(Plain)>>, Void)
WebView_SetBackgroundColor ==
    HostSync("WebView.setBackgroundColor", <<Req(Plain), Req(Plain)>>, Void)

\* WebSettingsHostApi
WebSettings_Create ==
    StandardSync("WebSettings.create", <<Req(Plain), Req(Plain)>>, Void)
WebSettings_SetDomStorageEnabled ==
    StandardSync("WebSettings.setDomStorageEnabled",
                 <<Req(Plain), Req(Plain)>>, Void)
WebSettings_SetJavaScriptCanOpenWindowsAutomatically ==
    StandardSync("WebSettings.setJavaScriptCanOpenWindowsAutomatically",
                 <<Req(Plain), Req(Plain)>>, Void)
WebSettings_SetSupportMultipleWindows ==
    StandardSync("WebSettings.setSupportMultipleWindows",
                 <<Req(Plain), Req(Plain)>>, Void)
WebSettings_SetJavaScriptEnabled ==
    StandardSync("WebSettings.setJavaScriptEnabled",
                 <<Req(Plain), Req(Plain)>>, Void)
WebSettings_SetUserAgentString ==
    StandardSync("WebSettings.setUserAgentString",
                 <<Req(Plain), Opt(Plain)>>, Void)
WebSettings_SetMediaPlaybackRequiresUserGesture ==
    StandardSync("WebSettings.setMediaPlaybackRequiresUserGesture",
                 <<Req(Plain), Req(Plain)>>, Void)
WebSettings_SetSupportZoom ==
    StandardSync("WebSettings.setSupportZoom",
                 <<Req(Plain), Req(Plain)>>, Void)
WebSettings_SetLoadWithOverviewMode ==
    StandardSync("WebSettings.setLoadWithOverviewMode",
                 <<Req(Plain), Req(Plain)>>, Void)
WebSettings_SetUseWideViewPort ==
    StandardSync("WebSettings.setUseWideViewPort",
                 <<Req(Plain), Req(Plain)>>, Void)
WebSettings_SetDisplayZoomControls ==
    StandardSync("WebSettings.setDisplayZoomControls",
                 <<Req(Plain), Req(Plain)>>, Void)
WebSettings_SetBuiltInZoomControls ==
    StandardSync("WebSettings.setBuiltInZoomControls",
                 <<Req(Plain), Req(Plain)>>, Void)
WebSettings_SetAllowFileAccess ==
    StandardSync("WebSettings.setAllowFileAccess",
                 <<Req(Plain), Req(Plain)>>, Void)
WebSettings_SetTextZoom ==
    StandardSync("WebSettings.setTextZoom", <<Req(Plain), Req(Plain)>>, Void)
WebSettings_GetUserAgentString ==
    StandardSync("WebSettings.getUserAgentString", <<Req(Plain)>>, Plain)

\* JavaScriptChannelHostApi
JavaScriptChannel_Create ==
    StandardSync("JavaScriptChannel.create", <<Req(Plain), Req(Plain)>>, Void)

\* WebViewClientHostApi
WebViewClient_Create ==
    StandardSync("WebViewClient.create", <<Req(Plain)>>, Void)
WebViewClient_SetSynchronousReturnValueForShouldOverrideUrlLoading ==
    StandardSync("WebViewClient.setSynchronousReturnValueForShouldOverrideUrlLoading",
                 <<Req(Plain), Req(Plain)>>, Void)

\* DownloadListenerHostApi
DownloadListener_Create ==
    StandardSync("DownloadListener.create", <<Req(Plain)>>, Void)

\* WebChromeClientHostApi
WebChromeClient_Create ==
    StandardSync("WebChromeClient.create", <<Req(Plain)>>, Void)
WebChromeClient_SetSynchronousReturnValueForOnShowFileChooser ==
    StandardSync("WebChromeClient.setSynchronousReturnValueForOnShowFileChooser",
                 <<Req(Plain), Req(Plain)>>, Void)
WebChromeClient_SetSynchronousReturnValueForOnConsoleMessage ==
    StandardSync("WebChromeClient.setSynchronousReturnValueForOnConsoleMessage",
                 <<Req(Plain), Req(Plain)>>, Void)
WebChromeClient_SetSynchronousReturnValueForOnJsAlert ==
    StandardSync("WebChromeClient.setSynchronousReturnValueForOnJsAlert",
                 <<Req(Plain), Req(Plain)>>, Void)
WebChromeClient_SetSynchronousReturnValueForOnJsConfirm ==
    StandardSync("WebChromeClient.setSynchronousReturnValueForOnJsConfirm",
                 <<Req(Plain), Req(Plain)>>, Void)
WebChromeClient_SetSynchronousReturnValueForOnJsPrompt ==
    StandardSync("WebChromeClient.setSynchronousReturnValueForOnJsPrompt",
                 <<Req(Plain), Req(Plain)>>, Void)

\* FlutterAssetManagerHostApi
FlutterAssetManager_List ==
    StandardSync("FlutterAssetManager.list", <<Req(Plain)>>, Plain)
FlutterAssetManager_GetAssetFilePathByName ==
    StandardSync("FlutterAssetManager.getAssetFilePathByName",
                 <<Req(Plain)>>, Plain)

\* WebStorageHostApi
WebStorage_Create == StandardSync("WebStorage.create", <<Req(Plain)>>, Void)
WebStorage_DeleteAllData ==
    StandardSync("WebStorage.deleteAllData", <<Req(Plain)>>, Void)

\* PermissionRequestHostApi
PermissionRequest_Grant ==
    StandardSync("PermissionRequest.grant", <<Req(Plain), Req(Plain)>>, Void)
PermissionRequest_Deny ==
    StandardSync("PermissionRequest.deny", <<Req(Plain)>>, Void)

\* CustomViewCallbackHostApi
CustomViewCallback_OnCustomViewHidden ==
    StandardSync("CustomViewCallback.onCustomViewHidden", <<Req(Plain)>>, Void)

\* GeolocationPermissionsCallbackHostApi
GeolocationPermissionsCallback_Invoke ==
    StandardSync("GeolocationPermissionsCallback.invoke",
                 <<Req(Plain), Req(Plain), Req(Plain), Req(Plain)>>, Void)

\* HttpAuthHandlerHostApi
HttpAuthHandler_UseHttpAuthUsernamePassword ==
    StandardSync("HttpAuthHandler.useHttpAuthUsernamePassword",
                 <<Req(Plain)>>, Plain)
HttpAuthHandler_Cancel ==
    StandardSync("HttpAuthHandler.cancel", <<Req(Plain)>>, Void)
HttpAuthHandler_Proceed ==
    StandardSync("HttpAuthHandler.proceed",
                 <<Req(Plain), Req(Plain), Req(Plain)>>, Void)

\* Those that RegisterWithRegistrar sets up.
Channels ==
    {InstanceManager_Clear, CookieManager_AttachInstance,
     CookieManager_SetCookie, CookieManager_RemoveAllCookies,
     CookieManager_SetAcceptThirdPartyCookies, WebView_Create,
     WebView_LoadData, WebView_LoadDataWithBaseUrl, WebView_LoadUrl,
     WebView_PostUrl, WebView_GetUrl, WebView_CanGoBack, WebView_CanGoForward,
     WebView_GoBack, WebView_GoForward, WebView_Reload, WebView_ClearCache,
     WebView_EvaluateJavascript, WebView_GetTitle, WebView_ScrollTo,
     WebView_ScrollBy, WebView_GetScrollX, WebView_GetScrollY,
     WebView_GetScrollPosition, WebView_SetWebContentsDebuggingEnabled,
     WebView_SetWebViewClient, WebView_AddJavaScriptChannel,
     WebView_RemoveJavaScriptChannel, WebView_SetDownloadListener,
     WebView_SetWebChromeClient, WebView_SetBackgroundColor,
     WebSettings_Create, WebSettings_SetDomStorageEnabled,
     WebSettings_SetJavaScriptCanOpenWindowsAutomatically,
     WebSettings_SetSupportMultipleWindows, WebSettings_SetJavaScriptEnabled,
     WebSettings_SetUserAgentString,
     WebSettings_SetMediaPlaybackRequiresUserGesture,
     WebSettings_SetSupportZoom, WebSettings_SetLoadWithOverviewMode,
     WebSettings_SetUseWideViewPort, WebSettings_SetDisplayZoomControls,
     WebSettings_SetBuiltInZoomControls, WebSettings_SetAllowFileAccess,
     WebSettings_SetTextZoom, WebSettings_GetUserAgentString,
     JavaScriptChannel_Create, WebViewClient_Create,
     WebViewClient_SetSynchronousReturnValueForShouldOverrideUrlLoading,
     DownloadListener_Create, WebChromeClient_Create,
     WebChromeClient_SetSynchronousReturnValueForOnShowFileChooser,
     WebChromeClient_SetSynchronousReturnValueForOnConsoleMessage,
     WebChromeClient_SetSynchronousReturnValueForOnJsAlert,
     WebChromeClient_SetSynchronousReturnValueForOnJsConfirm,
     WebChromeClient_SetSynchronousReturnValueForOnJsPrompt,
     WebStorage_Create, WebStorage_DeleteAllData}

\* Those of the APIs that it sets up no handler for.
Unheard ==
    {JavaObject_Dispose, FlutterAssetManager_List,
     FlutterAssetManager_GetAssetFilePathByName, PermissionRequest_Grant,
     PermissionRequest_Deny, CustomViewCallback_OnCustomViewHidden,
     GeolocationPermissionsCallback_Invoke,
     HttpAuthHandler_UseHttpAuthUsernamePassword, HttpAuthHandler_Cancel,
     HttpAuthHandler_Proceed}
=============================================================================
